---- MODULE Spec2Model ----
(***************************************************************************)
(* KIOSC Finance: the client-side Entity Cache (DataContext.js over        *)
(* SupabaseService.js), the Session Store (AuthContext.js) and the         *)
(* payment-center budget save (PaymentCenterBudgetForm.js).                *)
(*                                                                         *)
(* JavaScript values are tagged records of one shape, so that a number and  *)
(* the string that spells it stay different values; strings are sequences  *)
(* of symbols (one character each wherever the code splits, trims, joins   *)
(* or parses them), so that those conversions are computed, not assumed.   *)
(***************************************************************************)
EXTENDS Integers, Sequences, FiniteSets, TLC

VARIABLES
    data,        \* DataContext state `data`: collection name -> list of records
    remote,      \* the hosted tables: table name -> list of rows
    error,       \* DataContext state `error` (its class), "null" when unset
    unsavedChanges,
    clock,       \* Date.now()
    ops,         \* number of Entity Cache calls made so far
    last,        \* what the last Entity Cache call was given and returned
    form,        \* the lines in the journal entry form
    user,        \* AuthContext state `user`
    isAuthenticated,
    session,     \* AuthContext state `session`
    authError,   \* AuthContext state `error`
    storage,     \* localStorage: key -> value, absent keys not in the domain
    authRemote,  \* the auth provider and the Users profile table seen by AuthContext
    effects,     \* the instances of the auth initialization effect
    authLast,    \* what the last Session Store call was given and returned
    userRef,     \* which object `user` holds: a new one for every setUser(object)
    authSteps,   \* number of Session Store events so far
    budgetRows,  \* the remote PaymentCenterBudgets table
    saves,       \* the handleSaveBudgets calls in flight
    budgetLog,   \* the last remote write a budget save issued
    load         \* DataContext.initializeData: its position, what it has loaded, and
                 \* the states `initialized` and `loading`

dataVars == <<data, remote, error, unsavedChanges, clock, ops, last, form>>
authVars == <<user, isAuthenticated, session, authError, storage, authRemote, effects,
             authLast, userRef, authSteps>>
budgetVars == <<budgetRows, saves, budgetLog>>
loadVars == <<load>>
vars == <<dataVars, authVars, budgetVars, loadVars>>

----------------------------------------------------------------------------
(* Bounds of the model *)

\* Entity Cache calls in one behaviour
MaxOps == 2
\* lines of a journal entry
MaxLines == 3
\* permission tags in one stored permission list
MaxPerms == 2
\* Session Store events in one behaviour
MaxAuthSteps == 3
\* budget saves started in one behaviour
MaxSaves == 2

----------------------------------------------------------------------------
(* JavaScript values *)

Undef == [k |-> "undef", n |-> 0, s |-> <<>>, a |-> <<>>]
Null == [k |-> "null", n |-> 0, s |-> <<>>, a |-> <<>>]
NaN == [k |-> "nan", n |-> 0, s |-> <<>>, a |-> <<>>]
Num(x) == [k |-> "num", n |-> x, s |-> <<>>, a |-> <<>>]
Str(cs) == [k |-> "str", n |-> 0, s |-> cs, a |-> <<>>]
\* an array of strings
Arr(xs) == [k |-> "arr", n |-> 0, s |-> <<>>, a |-> xs]
\* a nested object
Obj(o) == [k |-> "obj", n |-> 0, s |-> <<>>, a |-> <<o>>]

\* ToBoolean: what `x || y`, `x ? :` and `if (x)` test
Truthy(v) ==
    CASE v.k = "num" -> v.n # 0
      [] v.k = "str" -> v.s # <<>>
      [] v.k = "arr" -> TRUE
      [] v.k = "obj" -> TRUE
      [] OTHER -> FALSE

\* x || y
Or(x, y) == IF Truthy(x) THEN x ELSE y

Digits == <<"0", "1", "2", "3", "4", "5", "6", "7", "8", "9">>
IsDigit(c) == \E i \in 1..Len(Digits) : Digits[i] = c
DigitVal(c) == (CHOOSE i \in 1..Len(Digits) : Digits[i] = c) - 1

\* the decimal spelling of a natural number
RECURSIVE NumToStr(_)
NumToStr(x) ==
    IF x < Len(Digits) THEN <<Digits[x + 1]>>
    ELSE NumToStr(x \div Len(Digits)) \o <<Digits[(x % Len(Digits)) + 1]>>

\* xs.join(sep)
RECURSIVE Join(_, _)
Join(xs, sep) ==
    IF xs = <<>> THEN <<>>
    ELSE IF Len(xs) = 1 THEN xs[1]
    ELSE xs[1] \o <<sep>> \o Join(Tail(xs), sep)

\* String(v) and template-literal interpolation
JsString(v) ==
    CASE v.k = "str" -> v.s
      [] v.k = "num" -> NumToStr(v.n)
      [] v.k = "null" -> <<"n", "u", "l", "l">>
      [] v.k = "nan" -> <<"N", "a", "N">>
      [] v.k = "arr" -> Join(v.a, ",")
      [] v.k = "obj" -> <<"[object Object]">>
      [] OTHER -> <<"u", "n", "d", "e", "f", "i", "n", "e", "d">>

\* the longest prefix of decimal digits
RECURSIVE DigitPrefix(_)
DigitPrefix(cs) ==
    IF cs = <<>> \/ ~IsDigit(Head(cs)) THEN <<>>
    ELSE <<Head(cs)>> \o DigitPrefix(Tail(cs))

RECURSIVE DigitsValue(_, _)
DigitsValue(cs, acc) ==
    IF cs = <<>> THEN acc
    ELSE DigitsValue(Tail(cs), acc * Len(Digits) + DigitVal(Head(cs)))

\* parseFloat / parseInt on the values the model uses (no fraction): the argument
\* is converted to a string and its sign and leading digits are read
ParseNumber(v) ==
    LET cs == JsString(v)
        negative == cs # <<>> /\ Head(cs) = "-"
        ds == DigitPrefix(IF negative THEN Tail(cs) ELSE cs)
    IN  IF ds = <<>> THEN NaN
        ELSE Num(IF negative THEN 0 - DigitsValue(ds, 0) ELSE DigitsValue(ds, 0))

parseFloat(v) == ParseNumber(v)
parseInt(v) == ParseNumber(v)

\* a + b on numbers, NaN absorbing
Plus(x, y) == IF x.k = "num" /\ y.k = "num" THEN Num(x.n + y.n) ELSE NaN

----------------------------------------------------------------------------
(* Objects: functions from field names to values *)

Has(o, f) == f \in DOMAIN o
Get(o, f) == IF f \in DOMAIN o THEN o[f] ELSE Undef
\* { ...x, ...y }
Spread(x, y) ==
    [f \in (DOMAIN x) \cup (DOMAIN y) |-> IF f \in DOMAIN y THEN y[f] ELSE x[f]]
\* { ...o, [f]: v }
With(o, f, v) == [g \in (DOMAIN o) \cup {f} |-> IF g = f THEN v ELSE o[g]]
\* delete o[f]
Without(o, f) == [g \in (DOMAIN o) \ {f} |-> o[g]]
EmptyObj == [f \in {} |-> Undef]
\* JSON.stringify of a request body drops the keys whose value is undefined
DropUndefined(o) == [f \in {g \in DOMAIN o : o[g].k # "undef"} |-> o[f]]

\* String(x) === String(y)
SameString(x, y) == JsString(x) = JsString(y)

SeqFilter(xs, Keep(_)) ==
    LET F[i \in 0..Len(xs)] ==
            IF i = 0 THEN <<>>
            ELSE IF Keep(xs[i]) THEN Append(F[i - 1], xs[i]) ELSE F[i - 1]
    IN  F[Len(xs)]

SeqMap(xs, Fn(_)) == [i \in 1..Len(xs) |-> Fn(xs[i])]

Range(xs) == {xs[i] : i \in 1..Len(xs)}

----------------------------------------------------------------------------
(* Strings: split(','), trim(), join(',') *)

\* s.split(sep): the pieces between the separators, at least one piece
RECURSIVE SplitFrom(_, _, _)
SplitFrom(cs, sep, cur) ==
    IF cs = <<>> THEN <<cur>>
    ELSE IF Head(cs) = sep THEN <<cur>> \o SplitFrom(Tail(cs), sep, <<>>)
    ELSE SplitFrom(Tail(cs), sep, Append(cur, Head(cs)))

Split(cs, sep) == SplitFrom(cs, sep, <<>>)

RECURSIVE TrimLeft(_)
TrimLeft(cs) == IF cs # <<>> /\ Head(cs) = " " THEN TrimLeft(Tail(cs)) ELSE cs

RECURSIVE TrimRight(_)
TrimRight(cs) ==
    IF cs # <<>> /\ cs[Len(cs)] = " " THEN TrimRight(SubSeq(cs, 1, Len(cs) - 1)) ELSE cs

Trim(cs) == TrimRight(TrimLeft(cs))

\* DataContext.parseCSVPermissions
parseCSVPermissions(permissionsString) ==
    IF ~Truthy(permissionsString) THEN Arr(<<>>)
    ELSE IF permissionsString.k = "arr" THEN permissionsString
    ELSE Arr(SeqMap(Split(JsString(permissionsString), ","), Trim))

----------------------------------------------------------------------------
(* SupabaseService over the hosted tables *)

\* SupabaseService.mapExpenseFields: application shape -> table shape
mapExpenseFields(expense) ==
    [id |-> Get(expense, "id"),
     date |-> Get(expense, "date"),
     description |-> Or(Get(expense, "description"), Str(<<>>)),
     supplier |-> Or(Get(expense, "supplierId"), Get(expense, "supplier")),
     amount |-> parseFloat(Or(Get(expense, "amount"), Num(0))),
     paymentType |->
        parseInt(Or(Or(Get(expense, "paymentTypeId"), Get(expense, "paymentType")), Num(1))),
     paymentCenter |->
        parseInt(Or(Or(Get(expense, "paymentCenterId"), Get(expense, "paymentCenter")), Num(1))),
     program |->
        IF Truthy(Get(expense, "programId")) THEN parseInt(Get(expense, "programId"))
        ELSE IF Truthy(Get(expense, "program")) THEN parseInt(Get(expense, "program"))
        ELSE Null,
     status |-> Or(Or(Get(expense, "statusId"), Get(expense, "status")),
                   Str(<<"Committed">>)),
     notes |-> Or(Get(expense, "notes"), Str(<<>>)),
     invoiceDate |-> Or(Get(expense, "invoiceDate"), Null),
     paymentDate |-> Or(Get(expense, "paymentDate"), Null),
     createdBy |-> Or(Get(expense, "createdBy"), Str(<<"system">>)),
     createdAt |-> Or(Get(expense, "createdAt"), Str(<<"now">>))]

\* SupabaseService.mapExpenseToApp: table shape -> application shape
mapExpenseToApp(dbExpense) ==
    [id |-> Get(dbExpense, "id"),
     date |-> Get(dbExpense, "date"),
     description |-> Get(dbExpense, "description"),
     supplierId |-> Get(dbExpense, "supplier"),
     supplier |-> Get(dbExpense, "supplier"),
     amount |-> Get(dbExpense, "amount"),
     paymentTypeId |-> Get(dbExpense, "paymentType"),
     paymentType |-> Get(dbExpense, "paymentType"),
     paymentCenterId |-> Get(dbExpense, "paymentCenter"),
     paymentCenter |-> Get(dbExpense, "paymentCenter"),
     programId |-> Get(dbExpense, "program"),
     program |-> Get(dbExpense, "program"),
     statusId |-> Get(dbExpense, "status"),
     status |-> Get(dbExpense, "status"),
     notes |-> Get(dbExpense, "notes"),
     invoiceDate |-> Get(dbExpense, "invoiceDate"),
     paymentDate |-> Get(dbExpense, "paymentDate"),
     createdBy |-> Get(dbExpense, "createdBy"),
     createdAt |-> Get(dbExpense, "createdAt")]

\* the columns of the Expenses table: a column the request leaves out is null in the row
ExpenseColumns ==
    {"id", "date", "description", "supplier", "amount", "paymentType", "paymentCenter",
     "program", "status", "notes", "invoiceDate", "paymentDate", "createdBy", "createdAt"}

\* JSON has no NaN: JSON.stringify writes it as null
JsonValue(v) == IF v.k = "nan" THEN Null ELSE v

\* the request body as the table receives it
JsonBody(o) == LET d == DropUndefined(o) IN [f \in DOMAIN d |-> JsonValue(d[f])]

NullRow(cols) == [f \in cols |-> Null]

\* .eq('id', id): the filter is sent as text
RowsMatching(rows, id) == {i \in 1..Len(rows) : SameString(Get(rows[i], "id"), id)}

\* A fault is the failure of the at-th remote call of a handler for an outside
\* reason (network, row-level security, a constraint on a column the model leaves out)
NoFault == [at |-> 0, cls |-> "none"]
FaultClasses == {"network", "fk", "notnull"}

\* The running handler: the tables, the cache, the remote calls made, the pending
\* exception ("none" or the class of its message), and the last call's result
Ctx(rem, dat) == [remote |-> rem, data |-> dat, calls |-> 0, exc |-> "none", ret |-> EmptyObj]

Throw(c, cls) == [c EXCEPT !.exc = cls]

\* SupabaseService.insert
svcInsert(c, table, record, fault) ==
    IF c.exc # "none" THEN c
    ELSE LET n == c.calls + 1
             c1 == [c EXCEPT !.calls = n]
             body == IF table = "Expenses"
                     THEN Spread(NullRow(ExpenseColumns), JsonBody(mapExpenseFields(record)))
                     ELSE JsonBody(record)
         IN  IF fault.at = n THEN Throw(c1, fault.cls)
             ELSE IF table \notin DOMAIN c.remote THEN Throw(c1, "relation")
             ELSE IF RowsMatching(c.remote[table], Get(body, "id")) # {}
                  THEN Throw(c1, "duplicate")
             ELSE [c1 EXCEPT !.remote[table] = Append(@, body),
                             !.ret = IF table = "Expenses" THEN mapExpenseToApp(body) ELSE body]

\* SupabaseService.update (the later of the two definitions of the class)
svcUpdate(c, table, id, updates, fault) ==
    IF c.exc # "none" THEN c
    ELSE LET n == c.calls + 1
             c1 == [c EXCEPT !.calls = n]
             body == IF table = "Expenses" THEN JsonBody(mapExpenseFields(updates))
                     ELSE IF table = "PaymentCenterBudgets"
                     THEN JsonBody(With(updates, "budget", Str(JsString(Get(updates, "budget")))))
                     ELSE JsonBody(updates)
             hit == IF table \in DOMAIN c.remote THEN RowsMatching(c.remote[table], id) ELSE {}
             rows == [i \in 1..Len(c.remote[table]) |->
                        IF i \in hit THEN Spread(c.remote[table][i], body)
                        ELSE c.remote[table][i]]
             first == IF hit = {} THEN EmptyObj
                      ELSE rows[CHOOSE i \in hit : \A j \in hit : i <= j]
         IN  IF table = "PaymentCenterBudgets" /\ Get(updates, "budget").k \in {"undef", "null"}
             THEN Throw(c, "typeerror")
             ELSE IF fault.at = n THEN Throw(c1, fault.cls)
             ELSE IF table \notin DOMAIN c.remote THEN Throw(c1, "relation")
             ELSE [c1 EXCEPT !.remote[table] = rows,
                             !.ret = IF table = "Expenses" /\ hit # {}
                                     THEN mapExpenseToApp(first) ELSE first]

\* SupabaseService.delete
svcDelete(c, table, id, fault) ==
    IF c.exc # "none" THEN c
    ELSE LET n == c.calls + 1
             c1 == [c EXCEPT !.calls = n]
         IN  IF fault.at = n THEN Throw(c1, fault.cls)
             ELSE IF table \notin DOMAIN c.remote THEN Throw(c1, "relation")
             ELSE [c1 EXCEPT !.remote[table] =
                        SeqFilter(@, LAMBDA row : ~SameString(Get(row, "id"), id))]

----------------------------------------------------------------------------
(* DataContext: the Entity Cache *)

\* currentUser?.field
UserField(u, f) == IF u = Null THEN Undef ELSE Get(u, f)

\* an audit entry that never names the caller
createAuditEntryAnonymous(u, entityType, entityId, action, now) ==
    [id |-> Str(<<"AUDIT">> \o NumToStr(now)),
     entityType |-> Str(<<entityType>>),
     entityId |-> entityId,
     action |-> Str(<<action>>),
     userId |-> Str(<<"system">>),
     username |-> Str(<<"system">>),
     timestamp |-> Num(now)]

\* DataContext.createAuditEntry
createAuditEntry(u, entityType, entityId, action, now) ==
    [id |-> Str(<<"AUDIT">> \o NumToStr(now)),
     entityType |-> Str(<<entityType>>),
     entityId |-> entityId,
     action |-> Str(<<action>>),
     userId |-> Or(UserField(u, "id"), Str(<<"system">>)),
     username |-> Or(UserField(u, "username"), Str(<<"system">>)),
     timestamp |-> Num(now)]

\* if (!data.AuditLog) data.AuditLog = []; data.AuditLog.push(entry)
PushLocal(c, coll, entry) ==
    IF c.exc # "none" THEN c
    ELSE [c EXCEPT !.data =
            IF coll \in DOMAIN c.data THEN [c.data EXCEPT ![coll] = Append(@, entry)]
            ELSE c.data @@ (coll :> <<entry>>)]

\* setData(prev => ({ ...prev, [coll]: rows }))
SetLocal(c, coll, rows) ==
    IF c.exc # "none" THEN c ELSE [c EXCEPT !.data = (coll :> rows) @@ c.data]

\* the shared error string's class after the catch block of addEntity / updateEntity
ClassifyError(cls) ==
    CASE cls \in {"collection", "entity", "relation"} -> "missing"
      [] cls = "fk" -> "fk"
      [] cls = "notnull" -> "notnull"
      [] OTHER -> "generic"

\* the catch block of the Expenses branches
ClassifyExpenseError(cls) ==
    CASE cls = "fk" -> "fk"
      [] cls = "notnull" -> "notnull"
      [] OTHER -> "generic"

\* a total that adds up every line, whatever its type
TotalOfAllLines(lines) ==
    LET F[i \in 0..Len(lines)] ==
            IF i = 0 THEN Num(0)
            ELSE Plus(F[i - 1], parseFloat(Or(Get(lines[i], "amount"), Num(0))))
    IN  F[Len(lines)]

\* the sum of the debit-typed amounts, as addEntity and updateEntity compute it
DebitTotal(lines) ==
    LET F[i \in 0..Len(lines)] ==
            IF i = 0 THEN Num(0)
            ELSE IF Get(lines[i], "type") = Str(<<"debit">>)
                 THEN Plus(F[i - 1], parseFloat(Or(Get(lines[i], "amount"), Num(0))))
                 ELSE F[i - 1]
    IN  F[Len(lines)]

\* the JournalLines row made from line number i of a saved entry
JournalLine(id, line, i, now) ==
    [id |-> Str(JsString(id) \o <<"-L">> \o NumToStr(i)),
     journalId |-> id,
     lineNumber |-> Num(i),
     type |-> Get(line, "type"),
     program |-> Or(Get(line, "program"), Str(<<>>)),
     paymentCenter |-> Get(line, "paymentCenter"),
     amount |-> Get(line, "amount"),
     createdAt |-> Num(now)]

\* for (const [index, line] of lines.entries()) { insert; data.JournalLines.push }
RECURSIVE InsertLines(_, _, _, _, _, _)
InsertLines(c, id, lines, i, fault, now) ==
    IF i > Len(lines) \/ c.exc # "none" THEN c
    ELSE LET row == JournalLine(id, lines[i], i, now)
             c1 == svcInsert(c, "JournalLines", row, fault)
         IN  InsertLines(PushLocal(c1, "JournalLines", row), id, lines, i + 1, fault, now)

\* for (const line of existing) await delete('JournalLines', line.id)
RECURSIVE DeleteLines(_, _, _)
DeleteLines(c, lines, fault) ==
    IF lines = <<>> \/ c.exc # "none" THEN c
    ELSE DeleteLines(svcDelete(c, "JournalLines", Get(Head(lines), "id"), fault),
                     Tail(lines), fault)

\* data.JournalLines = data.JournalLines.filter(line => line.journalId !== id),
\* reached when no delete threw
CascadeDropped(c, id) ==
    IF c.exc # "none" THEN c
    ELSE [c EXCEPT !.data["JournalLines"] = SeqFilter(@, LAMBDA l : Get(l, "journalId") # id)]

\* the journal-lines cascade shared by updateEntity and deleteEntity:
\* the cached lines whose journalId === id are deleted remotely, then dropped locally
CascadeLines(c, id, fault) ==
    IF c.exc # "none" \/ "JournalLines" \notin DOMAIN c.data THEN c
    ELSE CascadeDropped(
            DeleteLines(c, SeqFilter(c.data["JournalLines"],
                                     LAMBDA l : Get(l, "journalId") = id), fault),
            id)

\* What a handler leaves behind: the tables, the cache, the error string, the dirty
\* flag, its return value (ok: not the null/false sentinel) and its remote calls
Outcome(c, err, dirty, ok, val) ==
    [remote |-> c.remote, data |-> c.data, error |-> err, unsavedChanges |-> dirty,
     ok |-> ok, val |-> val, calls |-> c.calls, exc |-> c.exc]

\* await supabaseService.insert('AuditLog', audit); data.AuditLog.push(audit)
Audited(c, audit, fault) ==
    PushLocal(svcInsert(c, "AuditLog", audit, fault), "AuditLog", audit)

\* setData(prev => ({ ...prev, [collection]: [...prev[collection], entity] }))
PushEntity(c, collection, entity) ==
    SetLocal(c, collection, Append(c.data[collection], entity))

\* the error string a catch block sets: Expenses have their own catch, deleteEntity
\* always sets the general message
ErrorOf(handler, cls) ==
    CASE handler = "expense" -> ClassifyExpenseError(cls)
      [] handler = "delete" -> "generic"
      [] OTHER -> ClassifyError(cls)

\* a handler whose catch block returns the sentinel without setting the error string
FinishSilently(c, handler, err, dirty, dirtyAfter, val) ==
    IF c.exc # "none"
    THEN Outcome(c, err, dirty, FALSE, EmptyObj)
    ELSE Outcome(c, err, dirtyAfter, TRUE, val)

\* the end of a handler: the catch block if something threw, the result otherwise
FinishWith(c, handler, err, dirty, dirtyAfter, val) ==
    IF c.exc # "none"
    THEN Outcome(c, ErrorOf(handler, c.exc), dirty, FALSE, EmptyObj)
    ELSE Outcome(c, err, dirtyAfter, TRUE, val)

\* addEntity on Expenses once the insert returned: audit entry, then the cache
AddExpenseStored(c1, u, collection, fault, now, err, dirty) ==
    FinishWith(
        PushEntity(Audited(c1, createAuditEntry(u, collection, Get(c1.ret, "id"), "CREATE",
                                                now), fault),
                   collection, c1.ret),
        "expense", err, dirty, TRUE, c1.ret)

\* addEntity on JournalEntries once the parent insert returned: the lines, the
\* audit entry, then the cache (the dirty flag is not set on this path)
AddJournalStored(c1, id, lines, u, fault, now, err, dirty) ==
    FinishWith(
        PushEntity(Audited(InsertLines(c1, id, lines, 1, fault, now),
                           createAuditEntry(u, "JournalEntries", id, "CREATE", now), fault),
                   "JournalEntries", With(c1.ret, "lines", lines)),
        "entity", err, dirty, dirty, With(c1.ret, "lines", lines))

\* addEntity on the other collections once the insert returned
AddStored(c1, u, collection, fault, now, err, dirty) ==
    LET addedEntity == c1.ret
        stateEntity ==
            IF collection = "Users" /\ Truthy(Get(addedEntity, "permissions"))
            THEN With(addedEntity, "permissions",
                      parseCSVPermissions(addedEntity["permissions"]))
            ELSE addedEntity
    IN  FinishWith(
            PushEntity(Audited(c1, createAuditEntry(u, collection, Get(addedEntity, "id"),
                                                    "CREATE", now), fault),
                       collection, stateEntity),
            "entity", err, dirty, TRUE, stateEntity)

\* DataContext.addEntity
addEntity(dat, rem, err, dirty, u, collection, entity, fault, now, uuid) ==
    LET c0 == Ctx(rem, dat)
        newEntity == With(entity, "id", Or(Get(entity, "id"), uuid))
        dups == IF collection \in DOMAIN dat
                THEN {i \in 1..Len(dat[collection]) :
                        Get(dat[collection][i], "id") = newEntity["id"]}
                ELSE {}
        perms == Get(newEntity, "permissions")
    IN  IF collection \notin DOMAIN dat
        THEN FinishWith(Throw(c0, "collection"), "entity", err, dirty, dirty, EmptyObj)
        ELSE IF dups # {}
        THEN Outcome(c0, err, dirty, TRUE,
                     dat[collection][CHOOSE i \in dups : \A j \in dups : i <= j])
        ELSE IF collection = "Expenses"
        THEN AddExpenseStored(
                svcInsert(c0, collection,
                          Spread(newEntity,
                                 [createdBy |-> Or(UserField(u, "username"), Str(<<"system">>)),
                                  createdAt |-> Num(now)]),
                          fault),
                u, collection, fault, now, err, dirty)
        ELSE IF collection = "JournalEntries" /\ Has(entity, "lines")
        THEN AddJournalStored(
                svcInsert(c0, collection,
                          With(Without(newEntity, "lines"), "totalAmount",
                               DebitTotal(entity["lines"])),
                          fault),
                newEntity["id"], entity["lines"], u, fault, now, err, dirty)
        ELSE AddStored(
                svcInsert(c0, collection,
                          IF collection = "Users" /\ perms.k = "arr"
                          THEN With(newEntity, "permissions", Str(Join(perms.a, ",")))
                          ELSE newEntity,
                          fault),
                u, collection, fault, now, err, dirty)

\* data[collection].find(item => String(item.id) === String(id)): its index, 0 for none
FindIndex(rows, id) ==
    LET hit == RowsMatching(rows, id)
    IN  IF hit = {} THEN 0 ELSE CHOOSE i \in hit : \A j \in hit : i <= j

\* updateEntity / deleteEntity: const existingEntity = data[collection].find(...);
\* if (!existingEntity) throw: the index of the record, 0 when the handler throws
EntityAtUnchecked(dat, collection, id) ==
    IF FindIndex(dat[collection], id) # 0 THEN FindIndex(dat[collection], id)
    ELSE IF dat[collection] # <<>> THEN 1 ELSE 0

EntityAt(dat, collection, id) == FindIndex(dat[collection], id)

\* prev[collection].map(item => String(item.id) === String(id) ? { ...item, ...patch } : item)
MergeLocal(rows, id, patch) ==
    [i \in 1..Len(rows) |->
        IF SameString(Get(rows[i], "id"), id) THEN Spread(rows[i], patch) ELSE rows[i]]

\* the audit action of a journal update with lines
JournalAction(updates, existingEntity) ==
    IF Get(updates, "status") # Get(existingEntity, "status")
    THEN IF Get(updates, "status") = Str(<<"Approved">>) THEN "APPROVE"
         ELSE IF Get(updates, "status") = Str(<<"Rejected">>) THEN "REJECT"
         ELSE "UPDATE"
    ELSE "UPDATE"

\* setData(prev => ({ ...prev, [collection]: prev[collection].map(merge patch) }))
MergeEntity(c, collection, id, patch) ==
    SetLocal(c, collection, MergeLocal(c.data[collection], id, patch))

\* updateEntity on Expenses once the update returned: audit entry, then the cache
\* merges the returned record
UpdateExpenseStored(c1, u, collection, id, fault, now, err, dirty) ==
    FinishWith(
        MergeEntity(Audited(c1, createAuditEntry(u, collection, id, "UPDATE", now), fault),
                    collection, id, c1.ret),
        "expense", err, dirty, TRUE, EmptyObj)

\* DataContext.updateEntity
updateEntity(dat, rem, err, dirty, u, collection, id, updates, fault, now) ==
    LET c0 == Ctx(rem, dat)
        at == IF collection \in DOMAIN dat THEN EntityAt(dat, collection, id) ELSE 0
        existingEntity == dat[collection][at]
        lines == updates["lines"]
        journalUpdates == With(Without(updates, "lines"), "totalAmount", DebitTotal(lines))
        perms == Get(updates, "permissions")
        supabaseUpdates ==
            IF collection = "Users" /\ perms.k = "arr"
            THEN With(updates, "permissions", Str(Join(perms.a, ",")))
            ELSE updates
        stateUpdates ==
            IF collection = "Users" /\ Truthy(perms)
            THEN With(updates, "permissions", parseCSVPermissions(perms))
            ELSE updates
    IN  IF collection \notin DOMAIN dat
        THEN FinishWith(Throw(c0, "collection"), "entity", err, dirty, dirty, EmptyObj)
        ELSE IF at = 0
        THEN FinishWith(Throw(c0, "entity"), "entity", err, dirty, dirty, EmptyObj)
        ELSE IF collection = "Expenses"
        THEN UpdateExpenseStored(svcUpdate(c0, collection, id, updates, fault),
                                 u, collection, id, fault, now, err, dirty)
        ELSE IF collection = "JournalEntries" /\ Has(updates, "lines")
        THEN FinishWith(
                MergeEntity(
                    Audited(InsertLines(CascadeLines(svcUpdate(c0, collection, id,
                                                               journalUpdates, fault),
                                                     id, fault),
                                        id, lines, 1, fault, now),
                            createAuditEntry(u, "JournalEntries", id,
                                             JournalAction(updates, existingEntity), now),
                            fault),
                    "JournalEntries", id, With(journalUpdates, "lines", lines)),
                "entity", err, dirty, TRUE, EmptyObj)
        ELSE FinishWith(
                MergeEntity(
                    Audited(svcUpdate(c0, collection, id, supabaseUpdates, fault),
                            createAuditEntry(u, collection, id, "UPDATE", now), fault),
                    collection, id, stateUpdates),
                "entity", err, dirty, TRUE, EmptyObj)

\* setData(prev => ({ ...prev, [collection]: prev[collection].filter(not this id) }))
DropEntity(c, collection, id) ==
    SetLocal(c, collection,
             SeqFilter(c.data[collection], LAMBDA item : ~SameString(Get(item, "id"), id)))

\* DataContext.deleteEntity
deleteEntity(dat, rem, err, dirty, u, collection, id, fault, now) ==
    LET c0 == Ctx(rem, dat)
        at == IF collection \in DOMAIN dat THEN EntityAt(dat, collection, id) ELSE 0
    IN  IF collection \notin DOMAIN dat
        THEN FinishWith(Throw(c0, "collection"), "delete", err, dirty, dirty, EmptyObj)
        ELSE IF at = 0
        THEN FinishWith(Throw(c0, "entity"), "delete", err, dirty, dirty, EmptyObj)
        ELSE FinishWith(
                DropEntity(
                    Audited(svcDelete(IF collection = "JournalEntries"
                                      THEN CascadeLines(c0, id, fault) ELSE c0,
                                      collection, id, fault),
                            createAuditEntry(u, collection, id, "DELETE", now), fault),
                    collection, id),
                "delete", err, dirty, TRUE, EmptyObj)

\* DataContext.getEntityById: the record, or Null
getEntityById(dat, collection, id) ==
    IF collection \notin DOMAIN dat THEN Null
    ELSE LET at == FindIndex(dat[collection], id)
         IN  IF at = 0 THEN Null ELSE dat[collection][at]

----------------------------------------------------------------------------
(* The Entity Cache as a state machine *)

\* permission tags, spelled out because they are joined and split on ','
TagRead == <<"r", "e", "a", "d">>
TagWrite == <<"w", "r", "i", "t", "e">>
TagDelete == <<"d", "e", "l">>
Tags == {TagRead, TagWrite, TagDelete}

\* the identities a session can hold
Alice == [id |-> Str(<<"u", "1">>), email |-> Str(<<"alice@kiosc.com">>),
          username |-> Str(<<"alice">>), role |-> Str(<<"user">>),
          permissions |-> Str(Join(<<TagRead, TagWrite>>, ",")),
          status |-> Str(<<"active">>)]

\* an identity installed from the session alone (no profile row found): no username
Visitor == [id |-> Str(<<"u", "3">>), email |-> Str(<<"carol@kiosc.com">>),
            role |-> Str(<<"authenticated">>)]

\* no Entity Cache call made yet
NoCall == [op |-> "none", coll |-> "", id |-> Undef, arg |-> EmptyObj, fault |-> NoFault,
           ok |-> FALSE, val |-> EmptyObj, calls |-> 0, exc |-> "none",
           data0 |-> EmptyObj, remote0 |-> EmptyObj]

\* the collections initializeData loads, in its order
Collections ==
    <<"Users", "Suppliers", "PaymentCenters", "PaymentTypes", "ExpenseStatus",
      "PaymentCenterBudgets", "Expenses", "JournalEntries", "JournalLines", "AuditLog",
      "Programs">>

\* initializeData has run to its end: setInitialized(true), setLoading(false)
Loaded == [at |-> Len(Collections) + 2, failed |-> {}, newData |-> EmptyObj,
           initialized |-> TRUE, loading |-> FALSE]

\* the session and budget parts at rest
NoAuthCall == [op |-> "none", arg |-> Undef, ret |-> FALSE, remoteCalled |-> FALSE,
               held |-> FALSE, password |-> Undef, remote |-> "none", bypass |-> FALSE]
AuthIdle ==
    /\ isAuthenticated = FALSE /\ session = Null /\ authError = "null"
    /\ storage = EmptyObj /\ authRemote = EmptyObj /\ effects = <<>>
    /\ authLast = NoAuthCall /\ userRef = 0 /\ authSteps = 0
NoWrite == [kind |-> "none", id |-> Undef, budget |-> Undef, found |-> FALSE, ok |-> FALSE]
BudgetIdle == budgetRows = <<>> /\ saves = <<>> /\ budgetLog = NoWrite

\* the rows the tables hold when the application starts
SeedSupplier == [id |-> Str(<<"1">>), name |-> Str(<<"Acme">>)]
SeedUser == [id |-> Str(<<"1">>), username |-> Str(<<"bob">>),
             permissions |-> Str(Join(<<TagRead, TagWrite>>, ","))]
SeedExpense ==
    [id |-> Str(<<"1">>), date |-> Str(<<"2025-01-01">>), description |-> Str(<<"Paper">>),
     supplier |-> Str(<<"1">>), amount |-> Num(250), paymentType |-> Num(2),
     paymentCenter |-> Num(3), program |-> Num(2), status |-> Str(<<"Paid">>),
     notes |-> Str(<<"urgent">>), invoiceDate |-> Null, paymentDate |-> Null,
     createdBy |-> Str(<<"bob">>), createdAt |-> Num(0)]
SeedJournal == [id |-> Str(<<"1">>), status |-> Str(<<"Draft">>), totalAmount |-> Num(0)]
SeedBudget == [id |-> Str(<<"budget-1-2025">>), paymentCenterId |-> Str(<<"1">>),
               year |-> Str(<<"2025">>), budget |-> Str(<<"1", "5", "0">>)]

SeedTables ==
    [Users |-> <<SeedUser>>, Suppliers |-> <<SeedSupplier>>, Expenses |-> <<SeedExpense>>,
     JournalEntries |-> <<SeedJournal>>, JournalLines |-> <<>>,
     PaymentCenterBudgets |-> <<SeedBudget>>, AuditLog |-> <<>>]

\* DataContext.initializeData with every load succeeding: the cache mirrors the
\* tables, Expenses in application shape, Users with parsed permissions, journal
\* entries joined with their lines in line-number order
RECURSIVE SortedByLineNumber(_)
SortedByLineNumber(ls) ==
    IF ls = <<>> THEN <<>>
    ELSE LET m == CHOOSE i \in 1..Len(ls) :
                    \A j \in 1..Len(ls) :
                        ls[i]["lineNumber"].n < ls[j]["lineNumber"].n
                        \/ (ls[i]["lineNumber"].n = ls[j]["lineNumber"].n /\ i <= j)
         IN  <<ls[m]>> \o SortedByLineNumber([i \in 1..(Len(ls) - 1) |->
                                                  IF i < m THEN ls[i] ELSE ls[i + 1]])

LoadedLine(line) ==
    [id |-> line["id"], type |-> line["type"], program |-> Get(line, "program"),
     paymentCenter |-> Get(line, "paymentCenter"), amount |-> line["amount"]]

initializeData(rem) ==
    [t \in DOMAIN rem |->
        CASE t = "Expenses" -> SeqMap(rem[t], mapExpenseToApp)
          [] t = "Users" ->
                SeqMap(rem[t], LAMBDA r : With(r, "permissions",
                                               parseCSVPermissions(Get(r, "permissions"))))
          [] t = "JournalEntries" ->
                SeqMap(rem[t], LAMBDA j :
                    With(j, "lines",
                         SeqMap(SortedByLineNumber(
                                   SeqFilter(rem["JournalLines"],
                                             LAMBDA l : Get(l, "journalId") = j["id"])),
                                LoadedLine)))
          [] OTHER -> rem[t]]

\* the faults a call of the Entity Cache can meet
Faults == {NoFault, [at |-> 1, cls |-> "network"], [at |-> 2, cls |-> "network"]}

\* what the view layer passes to addEntity
NewSupplier(id) == [id |-> id, name |-> Str(<<"Bolt">>)]
NewUser(perms) == [id |-> Str(<<"2">>), username |-> Str(<<"carol">>), permissions |-> Arr(perms)]
\* an expense as a form holds it (text inputs, the program by its id) and one already
\* in the types of the table
FormExpense ==
    [id |-> Str(<<"2">>), date |-> Str(<<"2025-02-02">>), description |-> Str(<<"Ink">>),
     supplierId |-> Str(<<"1">>), amount |-> Str(<<"7", "5">>),
     paymentTypeId |-> Str(<<"2">>), paymentCenterId |-> Str(<<"3">>),
     programId |-> Str(<<"P", "R", "O", "G", "1">>), statusId |-> Str(<<"Invoiced">>),
     notes |-> Str(<<"n">>)]
TypedExpense ==
    [id |-> Str(<<"2">>), date |-> Str(<<"2025-02-02">>), description |-> Str(<<"Ink">>),
     supplierId |-> Str(<<"1">>), amount |-> Num(75), paymentTypeId |-> Num(2),
     paymentCenterId |-> Num(3), programId |-> Num(1), statusId |-> Str(<<"Invoiced">>),
     notes |-> Str(<<"n">>)]

AddInputs ==
    {[coll |-> "Suppliers", entity |-> NewSupplier(i)] : i \in {Str(<<"2">>), Num(1)}}
    \cup {[coll |-> "Suppliers", entity |-> [name |-> Str(<<"Bolt">>)]]}
    \cup {[coll |-> "Users", entity |-> NewUser(ps)] :
            ps \in {<<>>, <<TagRead>>, <<TagRead, TagWrite>>}}
    \cup {[coll |-> "Expenses", entity |-> e] : e \in {FormExpense, TypedExpense}}

UpdateInputs ==
    {[coll |-> "Suppliers", id |-> i, updates |-> u] :
        i \in {Str(<<"1">>), Num(1), Str(<<"9">>)},
        u \in {EmptyObj, [name |-> Str(<<"Apex">>)]}}
    \cup {[coll |-> "Users", id |-> Str(<<"1">>), updates |-> u] :
            u \in {EmptyObj, [permissions |-> Arr(<<>>)], [permissions |-> Arr(<<TagDelete>>)]}}
    \cup {[coll |-> "Expenses", id |-> i, updates |-> u] :
            i \in {Str(<<"1">>), Str(<<"9">>)},
            u \in {EmptyObj, [amount |-> Num(300), status |-> Str(<<"Invoiced">>)]}}
    \cup {[coll |-> "Reports", id |-> Str(<<"1">>), updates |-> EmptyObj]}
    \cup {[coll |-> "AuditLog", id |-> Str(<<"AUDIT", "1">>),
           updates |-> [username |-> Str(<<"mallory">>)]]}

DeleteInputs ==
    {[coll |-> "Suppliers", id |-> i] : i \in {Str(<<"1">>), Num(1), Str(<<"9">>)}}
    \cup {[coll |-> c, id |-> i] : c \in {"Users", "Expenses"}, i \in {Str(<<"1">>), Str(<<"9">>)}}
    \cup {[coll |-> "Reports", id |-> Str(<<"1">>)]}
    \cup {[coll |-> "AuditLog", id |-> Str(<<"AUDIT", "1">>)]}

\* the cache, the tables, the error string and the dirty flag after a handler, and
\* the record of the call
Landed(op, coll, id, arg, fault, out) ==
    /\ data' = out.data
    /\ remote' = out.remote
    /\ error' = out.error
    /\ unsavedChanges' = out.unsavedChanges
    /\ clock' = clock + 1
    /\ ops' = ops + 1
    /\ last' = [op |-> op, coll |-> coll, id |-> id, arg |-> arg, fault |-> fault,
                ok |-> out.ok, val |-> out.val, calls |-> out.calls, exc |-> out.exc,
                data0 |-> data, remote0 |-> remote]
    /\ UNCHANGED form

\* uuidv4(): an id no record has
FreshId == Str(<<"uuid-">> \o NumToStr(ops))

AddEntity ==
    /\ ops < MaxOps
    /\ \E in \in AddInputs, fault \in Faults :
        Landed("add", in.coll, Get(in.entity, "id"), in.entity, fault,
               addEntity(data, remote, error, unsavedChanges, user, in.coll, in.entity,
                         fault, clock, FreshId))
    /\ UNCHANGED <<authVars, budgetVars, loadVars>>

UpdateEntity ==
    /\ ops < MaxOps
    /\ \E in \in UpdateInputs, fault \in Faults :
        Landed("update", in.coll, in.id, in.updates, fault,
               updateEntity(data, remote, error, unsavedChanges, user, in.coll, in.id,
                            in.updates, fault, clock))
    /\ UNCHANGED <<authVars, budgetVars, loadVars>>

DeleteEntity ==
    /\ ops < MaxOps
    /\ \E in \in DeleteInputs, fault \in Faults :
        Landed("delete", in.coll, in.id, EmptyObj, fault,
               deleteEntity(data, remote, error, unsavedChanges, user, in.coll, in.id,
                            fault, clock))
    /\ UNCHANGED <<authVars, budgetVars, loadVars>>

DataStart(tables, tableNames) ==
    /\ remote = [t \in tableNames |-> tables[t]]
    /\ data = initializeData(remote)
    /\ error = "null"
    /\ unsavedChanges = FALSE
    /\ clock = 1
    /\ ops = 0
    /\ last = NoCall
    /\ load = Loaded

Init ==
    /\ form = <<>>
    /\ DataStart(SeedTables, {"Users", "Suppliers", "Expenses", "AuditLog"})
    /\ user \in {Null, Alice, Visitor}
    /\ AuthIdle
    /\ BudgetIdle

Next == AddEntity \/ UpdateEntity \/ DeleteEntity

Spec == Init /\ [][Next]_vars

----------------------------------------------------------------------------
(* Claims about the Entity Cache *)

\* a == b up to String(): 75 and "75" match, [] and "" match
Matches(x, y) == x = y \/ SameString(x, y)

\* the fields of a record that say who wrote it and when
AuditFields == {"createdBy", "createdAt", "modifiedBy", "modifiedAt", "updatedAt"}

\* the last call stored a record: it made its remote calls and did not return a sentinel
Stored == last.ok /\ last.calls > 0

\* C1: after addEntity(C, r) succeeds, getEntityById(C, r.id) returns a record whose
\* fields match r's fields, for every collection, Users and Expenses included
C1_ReadAfterWrite ==
    (last.op = "add" /\ Stored) =>
        LET got == getEntityById(data, last.coll, Get(last.val, "id"))
        IN  /\ got # Null
            /\ \A f \in DOMAIN last.arg : Matches(Get(got, f), last.arg[f])

\* the non-audit fields of the record with this id are the same in both lists
SameRecord(rows0, rows1, id) ==
    LET i0 == FindIndex(rows0, id)
        i1 == FindIndex(rows1, id)
    IN  /\ i1 # 0
        /\ \A f \in ((DOMAIN rows0[i0]) \cup (DOMAIN rows1[i1])) \ AuditFields :
                Get(rows0[i0], f) = Get(rows1[i1], f)

\* C2: updateEntity(C, id, {}) on an id present locally leaves every non-audit field
\* of the stored record unchanged, locally and remotely, and appends exactly one
\* AuditLogEntry
C2_EmptyUpdate ==
    (/\ last.op = "update" /\ last.arg = EmptyObj /\ last.ok
     /\ getEntityById(last.data0, last.coll, last.id) # Null) =>
        /\ SameRecord(last.data0[last.coll], data[last.coll], last.id)
        /\ SameRecord(last.remote0[last.coll], remote[last.coll], last.id)
        /\ Len(data["AuditLog"]) = Len(last.data0["AuditLog"]) + 1
        /\ Len(remote["AuditLog"]) = Len(last.remote0["AuditLog"]) + 1

\* C9: updateEntity and deleteEntity on an id with no record in the local collection
\* return false, issue no remote call and change no local collection, table or
\* audit log
C9_MissingRecordFailsFast ==
    (/\ last.op \in {"update", "delete"}
     /\ getEntityById(last.data0, last.coll, last.id) = Null) =>
        /\ ~last.ok
        /\ last.calls = 0
        /\ data = last.data0
        /\ remote = last.remote0
        /\ error # "null"

C9_Witness ==
    /\ last.op = "delete" /\ last.coll = "Suppliers" /\ last.id = Str(<<"9">>)
    /\ ~last.ok /\ last.data0["Suppliers"] # <<>>

----------------------------------------------------------------------------
(* Journal entries and their lines *)

JLine(type, amount) ==
    [type |-> Str(<<type>>), program |-> Str(<<"PROG1">>), paymentCenter |-> Str(<<"1">>),
     amount |-> amount]

\* the lines a form row can hold: the amount typed as a number or kept as text
LineKinds == {JLine("debit", Num(100)), JLine("credit", Num(100)),
              JLine("debit", Str(<<"5", "0">>))}

\* the line lists of up to MaxLines lines
LineLists == UNION {[1..n -> LineKinds] : n \in 0..MaxLines}

\* the journal rows the tables hold at start: entry "1" with two lines
SeedEntry == [id |-> Str(<<"1">>), reference |-> Str(<<"JE001">>),
              status |-> Str(<<"Draft">>), totalAmount |-> Num(100)]
SeedLines ==
    <<JournalLine(Str(<<"1">>), JLine("debit", Num(100)), 1, 0),
      JournalLine(Str(<<"1">>), JLine("credit", Num(100)), 2, 0)>>
JournalTables ==
    [JournalEntries |-> <<SeedEntry>>, JournalLines |-> SeedLines, AuditLog |-> <<>>]

\* the ids the view layer passes: the text of an id, or the number it spells
JournalIds == {Str(<<"1">>), Num(1), Str(<<"2">>), Num(2)}

InitJournal ==
    /\ form \in LineLists
    /\ DataStart(JournalTables, {"JournalEntries", "JournalLines", "AuditLog"})
    /\ user = Alice
    /\ AuthIdle
    /\ BudgetIdle

\* the user removes the last line of the form
RemoveFormLine ==
    /\ form # <<>>
    /\ ops < MaxOps
    /\ form' = SubSeq(form, 1, Len(form) - 1)
    /\ UNCHANGED <<data, remote, error, unsavedChanges, clock, ops, last>>
    /\ UNCHANGED <<authVars, budgetVars, loadVars>>

AddJournal ==
    /\ ops < MaxOps
    /\ \E id \in {Str(<<"2">>), Num(2)} :
        LET entity == [id |-> id, reference |-> Str(<<"JE002">>),
                       status |-> Str(<<"Draft">>), lines |-> form]
        IN  Landed("add", "JournalEntries", id, entity, NoFault,
                   addEntity(data, remote, error, unsavedChanges, user, "JournalEntries",
                             entity, NoFault, clock, FreshId))
    /\ UNCHANGED <<authVars, budgetVars, loadVars>>

UpdateJournal ==
    /\ ops < MaxOps
    /\ \E id \in JournalIds :
        LET updates == [lines |-> form]
        IN  Landed("update", "JournalEntries", id, updates, NoFault,
                   updateEntity(data, remote, error, unsavedChanges, user, "JournalEntries",
                                id, updates, NoFault, clock))
    /\ UNCHANGED <<authVars, budgetVars, loadVars>>

DeleteJournal ==
    /\ ops < MaxOps
    /\ \E id \in JournalIds :
        Landed("delete", "JournalEntries", id, EmptyObj, NoFault,
               deleteEntity(data, remote, error, unsavedChanges, user, "JournalEntries",
                            id, NoFault, clock))
    /\ UNCHANGED <<authVars, budgetVars, loadVars>>

NextJournal == RemoveFormLine \/ AddJournal \/ UpdateJournal \/ DeleteJournal

SpecJournal == InitJournal /\ [][NextJournal]_vars

\* the rows of a list that belong to the entry, under String() matching of ids
LinesOf(rows, id) == {i \in 1..Len(rows) : SameString(Get(rows[i], "journalId"), id)}

\* C3: after deleteEntity('JournalEntries', id) succeeds, for any id that identifies
\* the entry under string-coerced matching, neither the entry nor any of its lines
\* remains, remotely or locally
C3_NoOrphanLines ==
    (last.op = "delete" /\ last.coll = "JournalEntries" /\ last.ok) =>
        /\ RowsMatching(remote["JournalEntries"], last.id) = {}
        /\ RowsMatching(data["JournalEntries"], last.id) = {}
        /\ LinesOf(remote["JournalLines"], last.id) = {}
        /\ LinesOf(data["JournalLines"], last.id) = {}

\* the amount a line states: the number, or the number its text spells
AmountOf(line) ==
    IF line["amount"].k = "num" THEN line["amount"].n ELSE DigitsValue(line["amount"].s, 0)

RECURSIVE SumOfDebits(_)
SumOfDebits(lines) ==
    IF lines = <<>> THEN 0
    ELSE (IF Head(lines)["type"] = Str(<<"debit">>) THEN AmountOf(Head(lines)) ELSE 0)
         + SumOfDebits(Tail(lines))

\* C4: whenever a journal entry is saved with lines, by addEntity or updateEntity, the
\* stored totalAmount, in the table and in the cache, is the sum of the amounts of
\* the debit-typed lines of that save
C4_DebitTotal ==
    (/\ last.op \in {"add", "update"} /\ last.coll = "JournalEntries"
     /\ Has(last.arg, "lines") /\ Stored) =>
        LET want == Num(SumOfDebits(last.arg["lines"]))
        IN  /\ \A i \in RowsMatching(remote["JournalEntries"], last.id) :
                    Get(remote["JournalEntries"][i], "totalAmount") = want
            /\ \A i \in RowsMatching(data["JournalEntries"], last.id) :
                    /\ Get(data["JournalEntries"][i], "totalAmount") = want
                    /\ data["JournalEntries"][i]["lines"] = last.arg["lines"]
            /\ RowsMatching(remote["JournalEntries"], last.id) # {}
            /\ RowsMatching(data["JournalEntries"], last.id) # {}

\* the example of the specification: debit 100, credit 100, debit 50 gives 150
C4_Witness ==
    /\ last.op \in {"add", "update"} /\ last.coll = "JournalEntries" /\ Stored
    /\ Has(last.arg, "lines")
    /\ Len(last.arg["lines"]) = 3
    /\ last.arg["lines"][1] = JLine("debit", Num(100))
    /\ last.arg["lines"][2] = JLine("credit", Num(100))
    /\ last.arg["lines"][3] = JLine("debit", Str(<<"5", "0">>))
    /\ \E i \in RowsMatching(data["JournalEntries"], last.id) :
            data["JournalEntries"][i]["totalAmount"] = Num(150)

----------------------------------------------------------------------------
(* Session Store: permissions *)

AdminRole == Str(<<"admin">>)
AdminEmail == Str(<<"admin@kiosc.com">>)

\* user.app_metadata && user.app_metadata.role === 'admin'
MetadataAdmin(u) ==
    /\ Truthy(Get(u, "app_metadata"))
    /\ Get(u, "app_metadata").k = "obj"
    /\ Get(Get(u, "app_metadata").a[1], "role") = AdminRole

\* AuthContext.isAdmin
isAdmin(u) ==
    IF u = Null THEN FALSE
    ELSE \/ Get(u, "role") = AdminRole
         \/ Get(u, "email") = AdminEmail
         \/ MetadataAdmin(u)

\* a permission check that reads the stored string without trimming its pieces
hasPermissionUntrimmed(u, permission) ==
    IF u = Null THEN FALSE
    ELSE IF isAdmin(u) THEN TRUE
    ELSE LET userPermissions == Or(Get(u, "permissions"), Arr(<<>>))
         IN  IF userPermissions.k = "str"
             THEN permission \in Range(Split(userPermissions.s, ","))
             ELSE userPermissions.k = "arr" /\ permission \in Range(userPermissions.a)

\* AuthContext.hasPermission
hasPermission(u, permission) ==
    IF u = Null THEN FALSE
    ELSE IF \/ Get(u, "role") = AdminRole
            \/ Get(u, "email") = AdminEmail
            \/ MetadataAdmin(u)
         THEN TRUE
    ELSE LET userPermissions == Or(Get(u, "permissions"), Arr(<<>>))
         IN  IF userPermissions.k = "str"
             THEN permission \in Range(SeqMap(Split(userPermissions.s, ","), Trim))
             ELSE userPermissions.k = "arr" /\ permission \in Range(userPermissions.a)

\* the permission lists an administrator can grant
PermLists == UNION {[1..n -> Tags] : n \in 0..MaxPerms}

\* how a granted list is stored: as a list, as 'a,b' or as 'a, b'
Encodings == {"list", "csv", "spaced"}
Encode(xs, enc) ==
    CASE enc = "list" -> Arr(xs)
      [] enc = "csv" -> Str(Join(xs, ","))
      [] OTHER -> Str(Join([i \in 1..Len(xs) |-> IF i = 1 THEN xs[i] ELSE <<" ">> \o xs[i]],
                           ","))

\* the identities the permission checks are asked about
Identities ==
    LET base == {[id |-> Str(<<"u", "1">>), email |-> e, username |-> Str(<<"alice">>),
                  role |-> r, status |-> Str(<<"active">>)] :
                    e \in {Str(<<"alice@kiosc.com">>), AdminEmail},
                    r \in {Str(<<"user">>), AdminRole, Str(<<"authenticated">>)}}
        metas == {Obj([role |-> AdminRole]), Obj([provider |-> Str(<<"email">>)])}
        withMeta == base \cup {With(b, "app_metadata", m) : b \in base, m \in metas}
        perms == {Encode(xs, enc) : xs \in PermLists, enc \in Encodings}
    IN  withMeta \cup {With(b, "permissions", p) : b \in withMeta, p \in perms}

InitPermission ==
    /\ form = <<>>
    /\ DataStart(SeedTables, {"Users", "AuditLog"})
    /\ AuthIdle
    /\ BudgetIdle
    /\ user \in Identities \cup {Null}

\* a view asks hasPermission(tag)
HasPermission ==
    /\ \E tag \in Tags :
        authLast' = [NoAuthCall EXCEPT !.op = "hasPermission", !.arg = Str(tag),
                                       !.ret = hasPermission(user, tag)]
    /\ UNCHANGED <<user, isAuthenticated, session, authError, storage, authRemote, effects,
                   userRef, authSteps>>
    /\ UNCHANGED <<dataVars, budgetVars, loadVars>>

NextPermission == HasPermission

SpecPermission == InitPermission /\ [][NextPermission]_vars

----------------------------------------------------------------------------
(* Session Store: durable storage and the auth provider *)

StorageKeys == {"currentUser", "sessionTimestamp", "isAuthenticated"}

\* AuthContext.saveUserToStorage; JSON.stringify keeps the defined fields
saveUserToStorage(st, userData) ==
    IF userData # Null
    THEN [key \in (DOMAIN st) \cup StorageKeys |->
            CASE key = "currentUser" -> Obj(DropUndefined(userData))
              [] key = "sessionTimestamp" -> Str(<<"now">>)
              [] key = "isAuthenticated" -> Str(<<"true">>)
              [] OTHER -> st[key]]
    ELSE [key \in (DOMAIN st) \ StorageKeys |-> st[key]]

\* checkLocalStorage of the mount effect: what it restores and what it leaves stored
checkLocalStorage(st) ==
    LET savedUser == IF Has(st, "currentUser") THEN st["currentUser"] ELSE Null
        isStoredAuthenticated == Get(st, "isAuthenticated") = Str(<<"true">>)
    IN  IF Truthy(savedUser) /\ isStoredAuthenticated
        THEN IF savedUser.k = "obj"
             THEN [found |-> TRUE, user |-> savedUser.a[1], storage |-> st]
             ELSE [found |-> FALSE, user |-> Null,
                   storage |-> [key \in (DOMAIN st) \ {"currentUser", "isAuthenticated"} |->
                                    st[key]]]
        ELSE [found |-> FALSE, user |-> Null, storage |-> st]

\* the user object of a provider session for an account
SessionUser(account) ==
    [id |-> account.id, email |-> account.email, role |-> Str(<<"authenticated">>),
     app_metadata |-> Obj([provider |-> Str(<<"email">>)])]

\* .from('Users').select('*').eq(field, value).single(): the row, if exactly one
SingleProfile(profiles, field, value) ==
    LET hits == {i \in 1..Len(profiles) : Get(profiles[i], field) = value}
    IN  IF Cardinality(hits) = 1 THEN profiles[CHOOSE i \in hits : TRUE] ELSE Null

\* { ...session.user, username, name, role, permissions, status } of the profile row,
\* or the session user alone when the row is not found
CombinedUser(sessionUser, profiles) ==
    LET userData == SingleProfile(profiles, "email", sessionUser["email"])
    IN  IF userData # Null
        THEN Spread(sessionUser,
                    [username |-> Get(userData, "username"), name |-> Get(userData, "name"),
                     role |-> Get(userData, "role"),
                     permissions |-> Get(userData, "permissions"),
                     status |-> Get(userData, "status")])
        ELSE sessionUser

\* the accounts and profile rows the provider holds at start
AliceAccount == [id |-> Str(<<"u", "1">>), email |-> Str(<<"alice", "@", "kiosc.com">>)]
AliceProfile ==
    [id |-> Str(<<"u", "1">>), email |-> Str(<<"alice", "@", "kiosc.com">>),
     username |-> Str(<<"alice">>), name |-> Str(<<"Alice">>), role |-> Str(<<"user">>),
     permissions |-> Str(Join(<<TagRead, TagWrite>>, ",")), status |-> Str(<<"active">>)]
AdminProfile ==
    [id |-> Str(<<"u", "0">>), email |-> Str(<<"admin@kiosc.com">>),
     username |-> Str(<<"admin">>), name |-> Str(<<"Root">>), role |-> Str(<<"admin">>),
     permissions |-> Str(<<"admin">>), status |-> Str(<<"active">>)]
BobEmail == Str(<<"bob", "@", "kiosc.com">>)
BobAccount == [id |-> Str(<<"u", "2">>), email |-> BobEmail]

\* what durable storage can hold when the page is loaded
StoredAlice == saveUserToStorage(EmptyObj, CombinedUser(SessionUser(AliceAccount), <<AliceProfile>>))
InitialStorages ==
    {EmptyObj, StoredAlice,
     [StoredAlice EXCEPT !["currentUser"] = Str(<<"{">>)],
     [key \in {"isAuthenticated"} |-> Str(<<"true">>)]}

\* no live session on the provider side
NoAccount == [id |-> Null, email |-> Null]

InitAuth ==
    /\ form = <<>>
    /\ DataStart(SeedTables, {"Users", "AuditLog"})
    /\ BudgetIdle
    /\ user = Null /\ isAuthenticated = FALSE /\ session = Null /\ authError = "null"
    /\ storage \in InitialStorages
    /\ \E live \in {NoAccount, AliceAccount},
          profiles \in {<<AliceProfile>>, <<AliceProfile, AdminProfile>>} :
        authRemote = [accounts |-> {AliceAccount}, profiles |-> profiles,
                      live |-> live, registered |-> {}, approved |-> {}]
    /\ effects = <<>>
    /\ authLast = NoAuthCall
    /\ userRef = 0
    /\ authSteps = 0

\* one more Session Store event
Step(call) ==
    /\ authSteps < MaxAuthSteps
    /\ authSteps' = authSteps + 1
    /\ authLast' = call
    /\ UNCHANGED <<dataVars, budgetVars, loadVars>>

\* the object a setUser(object) of this event installs
NewRef == authSteps + 1

\* an instance of the auth initialization effect: the `user` its closures hold, the
\* object that was, its `mounted` flag, whether getSession() is still awaited, and the
\* account whose profile row its auth-state listener is fetching
Instance(seen, ref) ==
    [user |-> seen, ref |-> ref, mounted |-> TRUE, awaiting |-> TRUE, listening |-> NoAccount]

\* the provider mounts: both effects of the first render run, with user === null in
\* their closures; what checkLocalStorage sets is rendered next
Mount ==
    /\ effects = <<>>
    /\ LET chk == checkLocalStorage(storage)
       IN  /\ user' = chk.user
           /\ isAuthenticated' = chk.found
           /\ storage' = chk.storage
           /\ userRef' = IF chk.found THEN NewRef ELSE 0
           /\ effects' = <<Instance(Null, 0)>>
           /\ Step([NoAuthCall EXCEPT !.op = "mount", !.ret = chk.found])
    /\ UNCHANGED <<session, authError, authRemote>>

\* the render after setUser: the effect is cleaned up (mounted = false) and run
\* again with the new user in its closures
Rerender ==
    /\ effects # <<>>
    /\ effects[Len(effects)].ref # userRef
    /\ effects' = Append([i \in 1..Len(effects) |-> [effects[i] EXCEPT !.mounted = FALSE]],
                         Instance(user, userRef))
    /\ UNCHANGED <<user, isAuthenticated, session, authError, storage, authRemote,
                   authLast, userRef, authSteps>>
    /\ UNCHANGED <<dataVars, budgetVars, loadVars>>

\* setUser(null); setIsAuthenticated(false); saveUserToStorage(null)
ClearIdentity ==
    /\ user' = Null
    /\ userRef' = 0
    /\ isAuthenticated' = FALSE
    /\ storage' = saveUserToStorage(storage, Null)

\* setUser(u); saveUserToStorage(u); setIsAuthenticated(true)
InstallIdentity(u) ==
    /\ user' = u
    /\ userRef' = NewRef
    /\ isAuthenticated' = TRUE
    /\ storage' = saveUserToStorage(storage, u)

KeepIdentity == UNCHANGED <<user, userRef, isAuthenticated, storage>>

\* getSession() of initAuth instance i answers: an error, no session, or the live one
InitAuthAnswer ==
    \E i \in 1..Len(effects), outcome \in {"error", "none", "session"} :
        LET e == effects[i]
        IN  /\ e.awaiting
            /\ outcome = "session" => authRemote.live # NoAccount
            /\ effects' = [effects EXCEPT ![i].awaiting = FALSE]
            /\ Step([NoAuthCall EXCEPT !.op = "initAuth", !.arg = Str(<<outcome>>),
                                       !.ret = e.mounted, !.held = (user # Null)])
            /\ UNCHANGED authRemote
            /\ IF ~e.mounted
               THEN KeepIdentity /\ UNCHANGED <<session, authError>>
               ELSE CASE outcome = "error" ->
                            /\ authError' = "session"
                            /\ UNCHANGED session
                            /\ IF e.user = Null THEN ClearIdentity ELSE KeepIdentity
                      [] outcome = "none" ->
                            /\ session' = Null
                            /\ UNCHANGED authError
                            /\ IF e.user = Null THEN ClearIdentity ELSE KeepIdentity
                      [] OTHER ->
                            /\ session' = Obj([user |-> Obj(SessionUser(authRemote.live))])
                            /\ UNCHANGED authError
                            /\ InstallIdentity(CombinedUser(SessionUser(authRemote.live),
                                                            authRemote.profiles))

\* the interval runs refreshSession of the mounted instance: getSession() answers an
\* error, no session, or the live one
RefreshSession ==
    \E i \in 1..Len(effects), outcome \in {"error", "none", "session"} :
        /\ effects[i].mounted
        /\ outcome = "session" => authRemote.live # NoAccount
        /\ session' = IF outcome = "session"
                      THEN Obj([user |-> Obj(SessionUser(authRemote.live))])
                      ELSE session
        /\ KeepIdentity
        /\ UNCHANGED <<authError, authRemote, effects>>
        /\ Step([NoAuthCall EXCEPT !.op = "refreshSession", !.arg = Str(<<outcome>>),
                                   !.held = (effects[i].user # Null)])

\* the events the provider notifies, and whether a session comes with them
AuthEvents == {"INITIAL_SESSION", "SIGNED_IN", "TOKEN_REFRESHED", "SIGNED_OUT"}
EventHasSession(event, withSession) ==
    CASE event = "SIGNED_OUT" -> ~withSession
      [] event \in {"SIGNED_IN", "TOKEN_REFRESHED"} -> withSession
      [] OTHER -> TRUE

\* a listener that resets the identity whenever no session comes with the event
SessionlessEvent(event) == TRUE

\* _event === 'SIGNED_OUT': the only notification that resets the identity
SignedOutEvent(event) == event = "SIGNED_OUT"

\* the onAuthStateChange callback of the subscribed instance, up to its first await
AuthStateChange ==
    \E i \in 1..Len(effects), event \in AuthEvents, withSession \in BOOLEAN :
        /\ effects[i].mounted
        /\ effects[i].listening = NoAccount
        /\ EventHasSession(event, withSession)
        /\ withSession => authRemote.live # NoAccount
        /\ UNCHANGED <<authError, authRemote>>
        /\ Step([NoAuthCall EXCEPT !.op = "authState", !.arg = Str(<<event>>),
                                   !.held = withSession])
        /\ IF withSession
           THEN /\ session' = Obj([user |-> Obj(SessionUser(authRemote.live))])
                /\ effects' = [effects EXCEPT ![i].listening = authRemote.live]
                /\ KeepIdentity
           ELSE /\ session' = Null
                /\ UNCHANGED effects
                /\ IF SignedOutEvent(event) THEN ClearIdentity ELSE KeepIdentity

\* the profile fetch of the callback answers: the combined identity, or the session
\* user alone when the row is not read
AuthStateProfile ==
    \E i \in 1..Len(effects), outcome \in {"ok", "error"} :
        /\ effects[i].listening # NoAccount
        /\ effects' = [effects EXCEPT ![i].listening = NoAccount]
        /\ InstallIdentity(IF outcome = "ok"
                           THEN CombinedUser(SessionUser(effects[i].listening),
                                             authRemote.profiles)
                           ELSE SessionUser(effects[i].listening))
        /\ UNCHANGED <<session, authError, authRemote>>
        /\ Step([NoAuthCall EXCEPT !.op = "authProfile", !.arg = Str(<<outcome>>)])

\* the administrator identity of the fallback login
MockAdmin(id, name, permissions) ==
    [id |-> id, email |-> AdminEmail, username |-> Str(<<"admin">>), name |-> name,
     role |-> AdminRole, permissions |-> permissions, status |-> Str(<<"active">>),
     app_metadata |-> Obj([role |-> AdminRole]),
     user_metadata |-> Obj([name |-> Str(<<"Administrator">>)])]

DefaultAdminPermissions == Str(Join(<<<<"admin">>, TagRead, TagWrite, <<"delete">>>>, ","))

AccountOf(accounts, email) ==
    IF \E a \in accounts : a.email = email
    THEN CHOOSE a \in accounts : a.email = email
    ELSE NoAccount

\* saveUserToStorage(u); setUser(u); setIsAuthenticated(true), where the writes to
\* durable storage are inside a try whose catch only logs
StoreThenInstall(u, write) ==
    /\ user' = u
    /\ userRef' = NewRef
    /\ isAuthenticated' = TRUE
    /\ storage' = IF write = "ok" THEN saveUserToStorage(storage, u) ELSE storage

\* the identifiers and passwords given to login
LoginIdentifiers == {AliceAccount.email, BobEmail, Str(<<"admin">>), AdminEmail}
Passwords == {Str(<<"admin123">>), Str(<<"wrong">>), Str(<<>>)}

\* a fallback open to every identifier
AnyIdentifier(email) == TRUE

\* email === 'admin' || email === 'admin@kiosc.com'
AdminIdentifier(email) == email = Str(<<"admin">>) \/ email = AdminEmail

\* password === 'admin123' || password === ''
LastResortPassword(password) == password = Str(<<"admin123">>) \/ password = Str(<<>>)

\* what login leaves in common on every path
LoginCall(emailIn, outcome) ==
    [NoAuthCall EXCEPT !.op = "login", !.arg = emailIn, !.remote = outcome,
                       !.held = isAuthenticated]

\* login when signInWithPassword answers without error, with a session or without:
\* the identity is stored and installed only under `data.session && data.session.user`
LoginSignedIn ==
    \E emailIn \in LoginIdentifiers, outcome \in {"ok", "nosession"},
       lookup \in {"row", "none"}, write \in {"ok", "throws"} :
        /\ effects # <<>>
        /\ ~AdminIdentifier(emailIn)
        /\ AccountOf(authRemote.accounts, emailIn) # NoAccount
        /\ outcome = "nosession" => lookup = "none" /\ write = "ok"
        /\ UNCHANGED <<session, effects>>
        /\ authError' = "null"
        /\ Step([LoginCall(emailIn, outcome) EXCEPT !.ret = TRUE])
        /\ IF outcome = "ok"
           THEN /\ StoreThenInstall(
                        CombinedUser(SessionUser(AccountOf(authRemote.accounts, emailIn)),
                                     IF lookup = "row" THEN authRemote.profiles ELSE <<>>),
                        write)
                /\ authRemote' = [authRemote EXCEPT
                                    !.live = AccountOf(authRemote.accounts, emailIn)]
           ELSE /\ KeepIdentity
                /\ UNCHANGED authRemote

\* login when signInWithPassword answers an error for any other identifier than the
\* administrator's: throw error, caught with setError(error.message); return false
LoginRejected ==
    \E emailIn \in LoginIdentifiers :
        /\ effects # <<>>
        /\ ~AdminIdentifier(emailIn)
        /\ KeepIdentity
        /\ UNCHANGED <<session, effects, authRemote>>
        /\ authError' = "login"
        /\ Step(LoginCall(emailIn, "error"))

\* login when signInWithPassword answers an error for the administrator: the row with
\* username 'admin' is looked up, and without it the password is compared
LoginAdminFallback ==
    \E emailIn \in LoginIdentifiers, password \in Passwords,
       lookup \in {"row", "none"}, write \in {"ok", "throws"} :
        /\ effects # <<>>
        /\ AdminIdentifier(emailIn)
        /\ UNCHANGED <<session, effects, authRemote>>
        /\ LET adminRow == IF lookup = "row"
                           THEN SingleProfile(authRemote.profiles, "username",
                                              Str(<<"admin">>))
                           ELSE Null
               call == [LoginCall(emailIn, "error") EXCEPT !.bypass = TRUE]
           IN  IF adminRow # Null
               THEN /\ StoreThenInstall(
                            MockAdmin(Or(Get(adminRow, "id"), Str(<<"admin-id">>)),
                                      Or(Get(adminRow, "name"), Str(<<"Administrator">>)),
                                      Or(Get(adminRow, "permissions"),
                                         DefaultAdminPermissions)),
                            write)
                    /\ authError' = "null"
                    /\ Step([call EXCEPT !.ret = TRUE])
               ELSE IF LastResortPassword(password)
               THEN /\ StoreThenInstall(MockAdmin(Str(<<"admin-id">>),
                                                  Str(<<"Administrator">>),
                                                  DefaultAdminPermissions),
                                        write)
                    /\ authError' = "null"
                    /\ Step([call EXCEPT !.ret = TRUE, !.password = password])
               ELSE /\ write = "ok"
                    /\ KeepIdentity
                    /\ authError' = "invalid password"
                    /\ Step([call EXCEPT !.password = password])

\* AuthContext.login
Login == LoginSignedIn \/ LoginRejected \/ LoginAdminFallback

\* the profiles the two callers of register pass: the self-registration form and
\* the administrator's add-user dialog
CallerProfiles ==
    {[username |-> Str(<<"bob">>), name |-> Str(<<"Bob">>), role |-> Str(<<"user">>),
      permissions |-> Str(TagRead), status |-> Str(<<"pending">>)],
     [username |-> Str(<<"bob">>), name |-> Str(<<"Bob">>), role |-> Str(<<"user">>),
      permissions |-> Arr(<<TagRead>>), status |-> Str(<<"active">>)]}

\* AuthContext.register
Register ==
    \E userData \in CallerProfiles, signUp \in {"ok", "error"}, insert \in {"ok", "error"} :
        LET email == BobEmail
            newUser ==
                [username |-> Or(Get(userData, "username"), Str(<<Split(email.s, "@")[1]>>)),
                 name |-> Get(userData, "name"),
                 email |-> email,
                 role |-> Or(Get(userData, "role"), Str(<<"user">>)),
                 permissions |-> Or(Get(userData, "permissions"), Str(TagRead)),
                 status |-> Or(Get(userData, "status"), Str(<<"pending">>)),
                 id |-> BobAccount.id]
            taken == RowsMatching(authRemote.profiles, newUser["id"]) # {}
            call == [NoAuthCall EXCEPT !.op = "register", !.arg = newUser["status"]]
        IN  /\ effects # <<>>
            /\ signUp = "ok" => AccountOf(authRemote.accounts, email) = NoAccount
            /\ signUp = "error" => insert = "ok"
            /\ KeepIdentity
            /\ UNCHANGED <<session, effects>>
            /\ IF signUp = "error"
               THEN /\ authError' = "register"
                    /\ UNCHANGED authRemote
                    /\ Step(call)
               ELSE /\ authError' = "null"
                    /\ authRemote' =
                        [authRemote EXCEPT
                            !.accounts = @ \cup {BobAccount},
                            !.registered = @ \cup {email},
                            !.profiles = IF insert = "ok" /\ ~taken
                                         THEN Append(@, JsonBody(newUser)) ELSE @]
                    /\ Step([call EXCEPT !.ret = TRUE, !.remoteCalled = TRUE])

\* AuthContext.approveUser
ApproveUser ==
    \E userId \in {BobAccount.id}, outcome \in {"ok", "error"} :
        /\ effects # <<>>
        /\ KeepIdentity
        /\ UNCHANGED <<session, effects>>
        /\ IF outcome = "error"
           THEN /\ authError' = "approve"
                /\ UNCHANGED authRemote
                /\ Step([NoAuthCall EXCEPT !.op = "approveUser", !.arg = userId,
                                           !.remoteCalled = TRUE])
           ELSE /\ authError' = "null"
                /\ authRemote' =
                    [authRemote EXCEPT
                        !.approved = @ \cup {userId},
                        !.profiles = [i \in 1..Len(@) |->
                                        IF SameString(Get(@[i], "id"), userId)
                                        THEN With(@[i], "status", Str(<<"active">>))
                                        ELSE @[i]]]
                /\ Step([NoAuthCall EXCEPT !.op = "approveUser", !.arg = userId,
                                           !.ret = TRUE, !.remoteCalled = TRUE])

\* AuthContext.logout
Logout ==
    \E outcome \in {"ok", "error"} :
        LET call == [NoAuthCall EXCEPT !.op = "logout", !.held = (session # Null),
                                       !.remoteCalled = Truthy(session)]
        IN  /\ effects # <<>>
            /\ ~Truthy(session) => outcome = "ok"
            /\ UNCHANGED <<session, effects>>
            /\ IF Truthy(session) /\ outcome = "error"
               THEN /\ KeepIdentity
                    /\ authError' = "logout"
                    /\ UNCHANGED authRemote
                    /\ Step(call)
               ELSE /\ ClearIdentity
                    /\ authError' = "null"
                    /\ authRemote' = IF Truthy(session)
                                     THEN [authRemote EXCEPT !.live = NoAccount]
                                     ELSE authRemote
                    /\ Step([call EXCEPT !.ret = TRUE])

NextAuth ==
    \/ Mount \/ Rerender \/ InitAuthAnswer \/ RefreshSession \/ AuthStateChange
    \/ AuthStateProfile \/ Login \/ Register \/ ApproveUser \/ Logout

SpecAuth == InitAuth /\ [][NextAuth]_vars

\* the provider with its session reconciliation alone
NextSession ==
    \/ Mount \/ Rerender \/ InitAuthAnswer \/ RefreshSession \/ AuthStateChange
    \/ AuthStateProfile

SpecSession == InitAuth /\ [][NextSession]_vars

\* the provider with login and logout alone
NextLogin == Mount \/ Rerender \/ Login \/ Logout

SpecLogin == InitAuth /\ [][NextLogin]_vars

\* C6: on a reload that restores an identity from durable storage the store is
\* authenticated before any remote answer, and when the session check started at
\* mount then fails or reports no session, the identity, the authenticated flag and
\* the durable keys are kept
C6_RestoredIdentityKept ==
    [][(/\ authLast.op = "mount" /\ authLast.ret
        /\ authLast'.op = "initAuth" /\ authLast'.arg \in {Str(<<"error">>), Str(<<"none">>)})
            => /\ isAuthenticated /\ user # Null
               /\ isAuthenticated' /\ user' = user
               /\ storage' = storage]_vars

\* C7: every profile row made by register has status 'pending' until approved, and
\* the store is not authenticated as a registered account before its approval
C7_PendingUntilApproved ==
    /\ \A i \in 1..Len(authRemote.profiles) :
            (authRemote.profiles[i]["email"] \in authRemote.registered)
                => \/ authRemote.profiles[i]["status"] = Str(<<"pending">>)
                   \/ authRemote.profiles[i]["id"] \in authRemote.approved
    /\ (isAuthenticated /\ user # Null /\ Get(user, "email") \in authRemote.registered)
            => Get(user, "id") \in authRemote.approved

\* C8: logout calls the remote sign-out exactly when a session object is held, and
\* always ends with no identity, isAuthenticated false and the durable keys removed
C8_LogoutClears ==
    (authLast.op = "logout") =>
        /\ authLast.remoteCalled <=> authLast.held
        /\ user = Null
        /\ ~isAuthenticated
        /\ (DOMAIN storage) \cap StorageKeys = {}

----------------------------------------------------------------------------
(* Payment center budgets: PaymentCenterBudgetForm.handleSaveBudgets *)

\* `budget-${paymentCenterId}-${selectedYear}`
BudgetId(paymentCenterId, selectedYear) ==
    Str(<<"budget-">> \o JsString(paymentCenterId) \o <<"-">> \o JsString(selectedYear))

\* .insert(row) into a table whose id is the primary key
TableInsert(rows, row) ==
    IF RowsMatching(rows, row["id"]) # {}
    THEN [rows |-> rows, error |-> TRUE]
    ELSE [rows |-> Append(rows, row), error |-> FALSE]

\* .update(changes).eq('id', id)
TableUpdate(rows, id, changes) ==
    [i \in 1..Len(rows) |->
        IF SameString(Get(rows[i], "id"), id) THEN Spread(rows[i], changes) ELSE rows[i]]

\* a validation that turns down only what is not a number
InvalidBudgetNotANumber(budget) == parseFloat(Get(budget, "budget")).k = "nan"

\* isNaN(parseFloat(budget.budget)) || parseFloat(budget.budget) < 0
InvalidBudget(budget) ==
    \/ parseFloat(Get(budget, "budget")).k = "nan"
    \/ parseFloat(Get(budget, "budget")).n < 0

\* the budgets of the form: one per payment center, the center's id kept as the
\* table gave it (text or number)
Centers == <<Str(<<"1">>), Num(2)>>
\* what the number fields of the form can hold: an amount, nothing, a negative amount
Amounts == {Str(<<"1", "5", "0">>), Str(<<"1", "7", "5">>), Str(<<>>), Str(<<"-", "5">>)}
Years == {Str(<<"2025">>)}
FormBudgets(amounts) ==
    [i \in 1..Len(Centers) |-> [paymentCenterId |-> Centers[i], budget |-> amounts[i]]]

SeedBudgetRow ==
    [id |-> BudgetId(Centers[1], Str(<<"2025">>)), paymentCenterId |-> Centers[1],
     year |-> Str(<<"2025">>), budget |-> Str(<<"9", "0">>)]

InitBudget ==
    /\ form = <<>>
    /\ DataStart(SeedTables, {"Users", "AuditLog"})
    /\ user = Alice
    /\ AuthIdle
    /\ budgetRows \in {<<>>, <<SeedBudgetRow>>}
    /\ saves = <<>>
    /\ budgetLog = NoWrite

FinishedSave == [budgets |-> <<>>, year |-> Undef, i |-> 0, pc |-> "done", found |-> FALSE]

\* the next budget of the loop, or the end of the save
Advance(sv) ==
    IF sv.i >= Len(sv.budgets) THEN FinishedSave
    ELSE [sv EXCEPT !.i = @ + 1, !.pc = "check", !.found = FALSE]

\* handleSaveBudgets is called: validation, then the loop starts at the first budget
StartSave ==
    /\ Len(saves) < MaxSaves
    /\ \E amounts \in [1..Len(Centers) -> Amounts], year \in Years :
        LET budgets == FormBudgets(amounts)
        IN  IF \E i \in 1..Len(budgets) : InvalidBudget(budgets[i])
            THEN saves' = Append(saves, [budgets |-> budgets, year |-> year, i |-> 0,
                                         pc |-> "rejected", found |-> FALSE])
            ELSE saves' = Append(saves, [budgets |-> budgets, year |-> year, i |-> 1,
                                         pc |-> "check", found |-> FALSE])
    /\ UNCHANGED <<budgetRows, budgetLog>>
    /\ UNCHANGED <<dataVars, authVars, loadVars>>

\* the existence query of a save answers: .eq('id', budgetId).maybeSingle()
CheckExisting ==
    /\ \E k \in 1..Len(saves), outcome \in {"ok", "error"} :
        LET sv == saves[k]
            budgetId == BudgetId(sv.budgets[sv.i]["paymentCenterId"], sv.year)
        IN  /\ sv.pc = "check"
            /\ saves' = [saves EXCEPT ![k] =
                            IF outcome = "error" THEN Advance(sv)
                            ELSE [sv EXCEPT !.pc = "write",
                                            !.found = RowsMatching(budgetRows, budgetId) # {}]]
    /\ UNCHANGED <<budgetRows, budgetLog>>
    /\ UNCHANGED <<dataVars, authVars, loadVars>>

\* the write of a save reaches the table: an update if the query found the row,
\* an insert otherwise
WriteBudget ==
    /\ \E k \in 1..Len(saves) :
        LET sv == saves[k]
            budget == sv.budgets[sv.i]
            budgetId == BudgetId(budget["paymentCenterId"], sv.year)
            budgetData == [id |-> budgetId, paymentCenterId |-> budget["paymentCenterId"],
                           year |-> sv.year, budget |-> budget["budget"]]
            ins == TableInsert(budgetRows, budgetData)
        IN  /\ sv.pc = "write"
            /\ IF sv.found
               THEN /\ budgetRows' = TableUpdate(budgetRows, budgetId,
                                                 [budget |-> budget["budget"]])
                    /\ budgetLog' = [kind |-> "update", id |-> budgetId,
                                     budget |-> budget["budget"], found |-> TRUE,
                                     ok |-> TRUE]
               ELSE /\ budgetRows' = ins.rows
                    /\ budgetLog' = [kind |-> "insert", id |-> budgetId,
                                     budget |-> budget["budget"], found |-> FALSE,
                                     ok |-> ~ins.error]
            /\ saves' = [saves EXCEPT ![k] = Advance(sv)]
    /\ UNCHANGED <<dataVars, authVars, loadVars>>

NextBudget == StartSave \/ CheckExisting \/ WriteBudget

SpecBudget == InitBudget /\ [][NextBudget]_vars

\* C10: budget rows carry the id budget-<center>-<year> and no id is held by two rows;
\* a save inserts the row only when there is none, and every save that writes once
\* the row exists updates it, also when it overlaps another save between its
\* existence check and its write
C10_LaterSaveUpdates ==
    /\ \A i, j \in 1..Len(budgetRows) :
            SameString(budgetRows[i]["id"], budgetRows[j]["id"]) => i = j
    /\ \A i \in 1..Len(budgetRows) :
            budgetRows[i]["id"] = BudgetId(budgetRows[i]["paymentCenterId"],
                                           budgetRows[i]["year"])
    /\ (budgetLog.kind = "insert") => budgetLog.ok
    /\ (budgetLog.kind # "none") =>
            \E i \in RowsMatching(budgetRows, budgetLog.id) :
                budgetRows[i]["budget"] = budgetLog.budget

----------------------------------------------------------------------------
(* Payment center budgets written by the budget form and by the Entity Cache *)

\* the hosted tables with PaymentCenterBudgets among them
BudgetTables == ("PaymentCenterBudgets" :> budgetRows) @@ remote

\* what the Entity Cache is asked to do with budget records
BudgetEntityInputs ==
    {[paymentCenterId |-> Centers[1], year |-> Str(<<"2025">>), budget |-> Str(<<"1", "0">>)],
     [id |-> BudgetId(Centers[2], Str(<<"2025">>)), paymentCenterId |-> Centers[2],
      year |-> Str(<<"2025">>), budget |-> Str(<<"2", "0">>)]}
BudgetEntityUpdates ==
    {[budget |-> Str(<<"3", "0">>)],
     [budget |-> Str(<<"3", "0">>), paymentCenterId |-> Centers[2]]}
BudgetEntityIds == {BudgetId(Centers[1], Str(<<"2025">>)), BudgetId(Centers[2], Str(<<"2025">>))}

InitBudgetCache ==
    /\ form = <<>>
    /\ user = Alice
    /\ AuthIdle
    /\ budgetRows \in {<<>>, <<SeedBudgetRow>>}
    /\ saves = <<>>
    /\ budgetLog = NoWrite
    /\ remote = [t \in {"AuditLog"} |-> <<>>]
    /\ data = initializeData(BudgetTables)
    /\ error = "null"
    /\ unsavedChanges = FALSE
    /\ clock = 1
    /\ ops = 0
    /\ last = NoCall
    /\ load = Loaded

\* an Entity Cache call on PaymentCenterBudgets lands
LandedBudget(op, id, arg, out) ==
    /\ data' = out.data
    /\ remote' = [t \in DOMAIN remote |-> out.remote[t]]
    /\ budgetRows' = out.remote["PaymentCenterBudgets"]
    /\ error' = out.error
    /\ unsavedChanges' = out.unsavedChanges
    /\ clock' = clock + 1
    /\ ops' = ops + 1
    /\ last' = [op |-> op, coll |-> "PaymentCenterBudgets", id |-> id, arg |-> arg,
                fault |-> NoFault, ok |-> out.ok, val |-> out.val, calls |-> out.calls,
                exc |-> out.exc, data0 |-> data, remote0 |-> BudgetTables]
    /\ UNCHANGED <<form, saves, budgetLog>>
    /\ UNCHANGED <<authVars, loadVars>>

AddBudgetEntity ==
    /\ ops < MaxOps
    /\ \E entity \in BudgetEntityInputs :
        LandedBudget("add", Get(entity, "id"), entity,
                     addEntity(data, BudgetTables, error, unsavedChanges, user,
                               "PaymentCenterBudgets", entity, NoFault, clock, FreshId))

UpdateBudgetEntity ==
    /\ ops < MaxOps
    /\ \E id \in BudgetEntityIds, updates \in BudgetEntityUpdates :
        LandedBudget("update", id, updates,
                     updateEntity(data, BudgetTables, error, unsavedChanges, user,
                                  "PaymentCenterBudgets", id, updates, NoFault, clock))

DeleteBudgetEntity ==
    /\ ops < MaxOps
    /\ \E id \in BudgetEntityIds :
        LandedBudget("delete", id, EmptyObj,
                     deleteEntity(data, BudgetTables, error, unsavedChanges, user,
                                  "PaymentCenterBudgets", id, NoFault, clock))

NextBudgetCache ==
    \/ StartSave \/ CheckExisting \/ WriteBudget
    \/ AddBudgetEntity \/ UpdateBudgetEntity \/ DeleteBudgetEntity

SpecBudgetCache == InitBudgetCache /\ [][NextBudgetCache]_vars

\* C11: after any sequence of budget saves and Entity Cache operations on
\* PaymentCenterBudgets the table holds at most one row per (payment center, year)
C11_OneRowPerPair ==
    \A i, j \in 1..Len(budgetRows) :
        (/\ SameString(Get(budgetRows[i], "paymentCenterId"), Get(budgetRows[j], "paymentCenterId"))
         /\ SameString(Get(budgetRows[i], "year"), Get(budgetRows[j], "year")))
            => i = j

\* an entered amount that is not a number, or a negative one
BadAmount(amount) ==
    \/ amount.s = <<>>
    \/ ~IsDigit(Head(amount.s)) /\ Head(amount.s) # "-"
    \/ Head(amount.s) = "-"

\* C12: a budget save validates every entered amount before any write: a batch with
\* one amount that is not a number or is negative is rejected as a whole, its loop
\* never starts, and no existence check, insert or update is issued for any of its rows
C12_BatchValidated ==
    \A k \in 1..Len(saves) :
        /\ (\E i \in 1..Len(saves[k].budgets) : BadAmount(saves[k].budgets[i]["budget"]))
                => saves[k].pc = "rejected" /\ saves[k].i = 0
        /\ (saves[k].pc \in {"check", "write"})
                => \A i \in 1..Len(saves[k].budgets) :
                        ~BadAmount(saves[k].budgets[i]["budget"])
        /\ (budgetLog.kind # "none")
                => budgetLog.budget \in {a \in Amounts : ~BadAmount(a)}

\* a batch with one good and one negative amount was rejected on an empty table
\* that stayed empty
C12_Witness ==
    /\ \E k \in 1..Len(saves) :
            /\ saves[k].pc = "rejected"
            /\ saves[k].budgets[1]["budget"] = Str(<<"1", "5", "0">>)
            /\ saves[k].budgets[2]["budget"] = Str(<<"-", "5">>)
    /\ budgetRows = <<>>
    /\ budgetLog = NoWrite

\* C13: the interval reconciliation never clears the identity or the authenticated
\* flag when the remote session is absent or the fetch fails while an identity is
\* held; an auth-state notification without a session clears identity, flag and
\* durable keys if and only if it is the signed-out event, which always clears them
C13_OnlySignOutClears ==
    [][(authSteps' = authSteps + 1) =>
        /\ (authLast'.op = "refreshSession" /\ authLast'.arg \in {Str(<<"error">>), Str(<<"none">>)}
            /\ user # Null)
                => user' = user /\ isAuthenticated' = isAuthenticated /\ storage' = storage
        /\ (authLast'.op = "authState" /\ ~authLast'.held /\ authLast'.arg # Str(<<"SIGNED_OUT">>))
                => user' = user /\ isAuthenticated' = isAuthenticated /\ storage' = storage
        /\ (authLast'.op = "authState" /\ authLast'.arg = Str(<<"SIGNED_OUT">>))
                => /\ user' = Null /\ ~isAuthenticated'
                   /\ (DOMAIN storage') \cap StorageKeys = {}]_vars

\* the signed-out event has just cleared an identity that the mounted effect instance
\* still holds in its closures
C13_Witness ==
    /\ authLast.op = "authState" /\ authLast.arg = Str(<<"SIGNED_OUT">>)
    /\ effects # <<>> /\ effects[Len(effects)].user # Null
    /\ user = Null /\ ~isAuthenticated
    /\ (DOMAIN storage) \cap StorageKeys = {}

\* C14: login with a non-administrative identifier whose remote sign-in fails returns
\* false, sets the auth error and leaves the identity, the authenticated flag and the
\* durable storage keys exactly as they were; the local bypass path is entered only
\* for the administrative identifier
C14_RejectedLoginKeepsState ==
    [][(authSteps' = authSteps + 1 /\ authLast'.op = "login") =>
        /\ (authLast'.remote = "error"
            /\ authLast'.arg \notin {Str(<<"admin">>), Str(<<"admin@kiosc.com">>)})
                => /\ ~authLast'.ret
                   /\ authError' # "null"
                   /\ user' = user /\ isAuthenticated' = isAuthenticated
                   /\ storage' = storage
        /\ authLast'.bypass
                => authLast'.arg \in {Str(<<"admin">>), Str(<<"admin@kiosc.com">>)}]_vars

\* a sign-in of alice was refused while her restored identity was held, and it is
\* still held and stored
C14_Witness ==
    /\ authLast.op = "login" /\ authLast.arg = AliceAccount.email
    /\ authLast.remote = "error" /\ ~authLast.ret /\ authLast.held
    /\ authError = "login"
    /\ user # Null /\ isAuthenticated
    /\ storage = StoredAlice

\* C15: on the administrative bypass path, when no admin profile row can be read,
\* login succeeds only if the supplied password equals the hardcoded last-resort
\* credential; with any other password it returns false and does not authenticate
\* the Session Store
C15_LastResortCredential ==
    (authLast.op = "login" /\ authLast.bypass /\ authLast.password # Undef) =>
        /\ authLast.ret => authLast.password = Str(<<"admin123">>)
        /\ (authLast.password # Str(<<"admin123">>))
                => ~authLast.ret /\ (~authLast.held => ~isAuthenticated)

\* C16: whenever login returns true the Session Store is authenticated (identity
\* non-null, isAuthenticated true) and the merged identity is persisted in durable
\* storage with isAuthenticated == 'true'
C16_TrueLoginPersisted ==
    (authLast.op = "login" /\ authLast.ret) =>
        /\ user # Null /\ isAuthenticated
        /\ Has(storage, "currentUser") /\ storage["currentUser"] = Obj(DropUndefined(user))
        /\ Get(storage, "isAuthenticated") = Str(<<"true">>)

\* the last call was addEntity with an id that a record of the local collection had
CollidingAdd ==
    /\ last.op = "add"
    /\ last.coll \in DOMAIN last.data0
    /\ \E i \in 1..Len(last.data0[last.coll]) :
            Get(last.data0[last.coll][i], "id") = last.id

\* C17: addEntity(C, r) rejects a record whose id collides with a record already in
\* the local collection C: no remote insert is issued, no audit entry is appended,
\* the local collection is unchanged, and the caller gets the failure signal rather
\* than a stored record
C17_CollidingAddRejected ==
    CollidingAdd =>
        /\ last.calls = 0
        /\ remote = last.remote0
        /\ data = last.data0
        /\ ~last.ok

\* C18: every addEntity, updateEntity and deleteEntity call in which a precondition or
\* a remote call fails catches the failure itself: it returns the sentinel and leaves
\* the shared error string non-null
C18_FailureCaught ==
    (last.op \in {"add", "update", "delete"} /\ last.exc # "none") =>
        /\ ~last.ok
        /\ last.val = EmptyObj
        /\ error # "null"

\* addEntity stored the record, then the insert of its audit entry failed: null is
\* returned and the error string is set
C18_Witness ==
    /\ last.op = "add" /\ last.exc = "network" /\ last.calls = 2
    /\ ~last.ok /\ last.val = EmptyObj
    /\ error = "generic"

\* C19: on every failing mutating call the class of the shared error string matches
\* the cause: 'does not exist' only when the collection is missing, the reference
\* message for a remote foreign-key violation, the required-field message for a remote
\* not-null violation, and the general wrapped message for every other cause, a record
\* id that is not found locally included
C19_ErrorClassMatchesCause ==
    (last.op \in {"add", "update", "delete"} /\ last.exc # "none") =>
        /\ (error = "missing") => last.coll \notin DOMAIN last.data0
        /\ (last.exc = "fk") => error = "fk"
        /\ (last.exc = "notnull") => error = "notnull"
        /\ (last.exc \notin {"collection", "fk", "notnull"}) => error = "generic"

----------------------------------------------------------------------------
(* Loading the cache: DataContext.initializeData *)

\* the rows of the tables when the application is opened
SeedProgram == [id |-> Str(<<"PROG1">>), name |-> Str(<<"Program 1">>)]
LoadTables(programs) ==
    [c \in Range(Collections) |->
        CASE c = "Programs" -> programs
          [] c \in {"JournalEntries", "JournalLines"} -> JournalTables[c]
          [] c \in DOMAIN SeedTables -> SeedTables[c]
          [] OTHER -> <<[id |-> Str(<<"1">>), name |-> Str(<<c>>)]>>]

\* the defaultPrograms of initializePrograms
DefaultPrograms ==
    [i \in 1..3 |-> [id |-> Str(<<"PROG">> \o NumToStr(i)),
                     name |-> Str(<<"Program ">> \o NumToStr(i)),
                     description |-> Str(<<"Default Program ">> \o NumToStr(i)),
                     status |-> Str(<<"Active">>)]]

\* a load that keeps the rows whatever the answer was
FetchedAnyway(rows, outcome) == rows

\* try { newData[collection] = await getAll(collection) } catch { newData[collection] = [] }
Fetched(rows, outcome) == IF outcome = "ok" THEN rows ELSE <<>>

InitLoad ==
    /\ form = <<>>
    /\ user = Alice
    /\ AuthIdle
    /\ BudgetIdle
    /\ \E programs \in {<<>>, <<SeedProgram>>} : remote = LoadTables(programs)
    /\ data = EmptyObj
    /\ error = "null"
    /\ unsavedChanges = FALSE
    /\ clock = 1
    /\ ops = 0
    /\ last = NoCall
    /\ load = [at |-> 0, failed |-> {}, newData |-> EmptyObj,
               initialized |-> FALSE, loading |-> TRUE]

\* what a step of the load leaves alone
LoadStep ==
    UNCHANGED <<unsavedChanges, clock, ops, last, form, authVars, budgetVars>>

\* the mount effect: if (!initialized) initializeData(), which begins with
\* setLoading(true); setError(null)
StartLoad ==
    /\ load.at = 0 /\ ~load.initialized
    /\ load' = [load EXCEPT !.at = 1, !.loading = TRUE]
    /\ error' = "null"
    /\ UNCHANGED <<data, remote>>
    /\ LoadStep

\* one turn of the loop for a collection other than Programs
LoadCollection ==
    \E outcome \in {"ok", "fail"} :
        /\ load.at \in 1..Len(Collections)
        /\ Collections[load.at] # "Programs"
        /\ load' = [load EXCEPT
                        !.at = @ + 1,
                        !.failed = IF outcome = "ok" THEN @ ELSE @ \cup {Collections[load.at]},
                        !.newData = (Collections[load.at] :>
                                        Fetched(remote[Collections[load.at]], outcome)) @@ @]
        /\ UNCHANGED <<data, remote, error>>
        /\ LoadStep

\* initializePrograms, called when the load of Programs failed: the table is read
\* again; an empty table is filled with the defaults, `inserted` of which are stored
\* before an insert fails, and read once more. Every failure inside returns []
initializePrograms(rem, retry, inserted, again) ==
    IF retry = "fail" THEN [remote |-> rem, programs |-> <<>>]
    ELSE IF rem["Programs"] # <<>> THEN [remote |-> rem, programs |-> rem["Programs"]]
    ELSE LET stored == [rem EXCEPT !["Programs"] =
                            [i \in 1..inserted |-> JsonBody(DefaultPrograms[i])]]
         IN  IF inserted < Len(DefaultPrograms) \/ again = "fail"
             THEN [remote |-> stored, programs |-> <<>>]
             ELSE [remote |-> stored, programs |-> stored["Programs"]]

\* the turn of the loop for Programs: a failed load calls initializePrograms and keeps
\* what it returns when that is not empty
LoadPrograms ==
    \E outcome \in {"ok", "fail"}, retry \in {"ok", "fail"}, inserted \in 0..3,
       again \in {"ok", "fail"} :
        /\ load.at \in 1..Len(Collections)
        /\ Collections[load.at] = "Programs"
        /\ UNCHANGED <<data, error>>
        /\ LoadStep
        /\ IF outcome = "ok"
           THEN /\ load' = [load EXCEPT !.at = @ + 1,
                                        !.newData = ("Programs" :> remote["Programs"]) @@ @]
                /\ UNCHANGED remote
           ELSE /\ load' = [load EXCEPT
                                !.at = @ + 1,
                                !.failed = @ \cup {"Programs"},
                                !.newData = ("Programs" :>
                                    initializePrograms(remote, retry, inserted,
                                                       again).programs) @@ @]
                /\ remote' = initializePrograms(remote, retry, inserted, again).remote

\* after the loop: the permissions of Users are parsed, the journal entries get their
\* lines, then setData(newData); setInitialized(true); finally setLoading(false)
FinishLoad ==
    /\ load.at = Len(Collections) + 1
    /\ data' = initializeData(load.newData)
    /\ load' = [load EXCEPT !.at = @ + 1, !.initialized = TRUE, !.loading = FALSE]
    /\ UNCHANGED <<remote, error>>
    /\ LoadStep

NextLoad == StartLoad \/ LoadCollection \/ LoadPrograms \/ FinishLoad

\* every await of the load is answered
SpecLoad == InitLoad /\ [][NextLoad]_vars /\ WF_vars(NextLoad)

\* the local list of a collection is what its table returned
HoldsReturned(c) ==
    CASE c = "Users" ->
            data[c] = SeqMap(remote[c], LAMBDA r :
                                With(r, "permissions",
                                     parseCSVPermissions(Get(r, "permissions"))))
      [] c = "Expenses" -> data[c] = SeqMap(remote[c], mapExpenseToApp)
      [] c = "JournalEntries" ->
            SeqMap(data[c], LAMBDA j : Without(j, "lines")) = remote[c]
      [] OTHER -> data[c] = remote[c]

LoadEnded == load.at = Len(Collections) + 2

\* C20 as stated: initializeData tolerates per-collection failure: for any subset of
\* the known collections whose load fails, those collections are empty lists locally,
\* every other collection holds what the remote returned, every known collection key
\* is present, initialized becomes true and loading eventually becomes false
C20_FailedLoadsEmpty ==
    /\ [](LoadEnded =>
            /\ load.initialized
            /\ \A c \in Range(Collections) :
                /\ c \in DOMAIN data
                /\ c \in load.failed => data[c] = <<>>
                /\ c \notin load.failed => HoldsReturned(c))
    /\ <>(load.initialized /\ ~load.loading)

\* C20: initializeData tolerates per-collection failure: for any subset of the known
\* collections whose load fails, those collections are empty lists locally, except
\* Programs, which is read a second time (and given the default programs when its
\* table is empty) and holds the result of that attempt, empty when it fails too;
\* every other collection holds what the remote returned, every known collection key
\* is present, initialized becomes true and loading eventually becomes false
C20_LoadTolerant ==
    /\ [](LoadEnded =>
            /\ load.initialized
            /\ \A c \in Range(Collections) :
                /\ c \in DOMAIN data
                /\ (c \in load.failed /\ c # "Programs") => data[c] = <<>>
                /\ (c \in load.failed /\ c = "Programs")
                        => data[c] = <<>> \/ data[c] = remote[c]
                /\ c \notin load.failed => HoldsReturned(c))
    /\ <>(load.initialized /\ ~load.loading)

\* the loads of Suppliers, JournalLines and Programs failed and the second reading of
\* Programs succeeded: the first two are empty, Programs and the others are filled
C20_Witness ==
    /\ LoadEnded /\ load.initialized /\ ~load.loading
    /\ load.failed = {"Suppliers", "JournalLines", "Programs"}
    /\ data["Suppliers"] = <<>> /\ data["JournalLines"] = <<>>
    /\ data["Programs"] # <<>>
    /\ data["Users"] # <<>> /\ data["JournalEntries"] # <<>>

\* C21: when initializeData finds the Programs collection empty (the load succeeds
\* and returns no rows), it seeds Programs with the fixed default set, persists the
\* seed remotely, and the local Programs collection holds the seeded records
C21_EmptyProgramsSeeded ==
    (LoadEnded /\ "Programs" \notin load.failed /\ remote["Programs"] # <<SeedProgram>>) =>
        /\ remote["Programs"] = [i \in 1..3 |-> JsonBody(DefaultPrograms[i])]
        /\ data["Programs"] = remote["Programs"]

\* the rows of the entry are the given lines, numbered 1..n in this order
ExactlyLines(rows, id, lines) ==
    /\ Cardinality(LinesOf(rows, id)) = Len(lines)
    /\ \A n \in 1..Len(lines) :
            \E i \in LinesOf(rows, id) :
                /\ Get(rows[i], "lineNumber") = Num(n)
                /\ Get(rows[i], "type") = lines[n]["type"]
                /\ Get(rows[i], "amount") = lines[n]["amount"]

\* C22: after a successful updateEntity('JournalEntries', id, updates) with replaced
\* lines, the line records of that entry, remotely and locally, are exactly the new
\* lines numbered 1..n: no old line survives and no new line is missing
C22_LinesReplaced ==
    (/\ last.op = "update" /\ last.coll = "JournalEntries" /\ last.ok
     /\ Has(last.arg, "lines")) =>
        /\ ExactlyLines(remote["JournalLines"], last.id, last.arg["lines"])
        /\ ExactlyLines(data["JournalLines"], last.id, last.arg["lines"])

\* the first list is the beginning of the second
Prefix(rows0, rows1) ==
    /\ Len(rows0) <= Len(rows1)
    /\ \A i \in 1..Len(rows0) : rows1[i] = rows0[i]

\* C23: the audit log is append-only: after any sequence of Entity Cache operations,
\* on any collection name, every AuditLogEntry that was appended is still present
\* and unchanged in the local AuditLog collection and in the remote AuditLog table
C23_AuditAppendOnly ==
    [][/\ Prefix(remote["AuditLog"], remote'["AuditLog"])
       /\ Prefix(data["AuditLog"], data'["AuditLog"])]_vars

\* ---- audit trail of the mutators ----

\* the rows of rows1 whose id no row of rows0 has
NewRows(rows0, rows1) ==
    {i \in 1..Len(rows1) : \A j \in 1..Len(rows0) : Get(rows0[j], "id") # Get(rows1[i], "id")}

\* the action tag a mutator records
ActionTag(op) == CASE op = "add" -> "CREATE" [] op = "update" -> "UPDATE" [] OTHER -> "DELETE"

\* the id of the record a call was about: the stored record's for an add, the argument else
SubjectId == IF last.op = "add" THEN Get(last.val, "id") ELSE last.id

\* a call that stored, changed or removed a record and did not return the failure value
Mutated == last.op \in {"add", "update", "delete"} /\ Stored /\ ~CollidingAdd

\* one new entry on both sides, the same one, naming the collection, the record, the action
OneAuditEntry(who(_, _)) ==
    LET newRemote == NewRows(last.remote0["AuditLog"], remote["AuditLog"])
        newLocal == NewRows(last.data0["AuditLog"], data["AuditLog"])
    IN  /\ Cardinality(newRemote) = 1
        /\ Cardinality(newLocal) = 1
        /\ \A i \in newRemote, j \in newLocal :
              /\ remote["AuditLog"][i] = data["AuditLog"][j]
              /\ i = Len(remote["AuditLog"])
              /\ Get(data["AuditLog"][j], "entityType") = Str(<<last.coll>>)
              /\ SameString(Get(data["AuditLog"][j], "entityId"), SubjectId)
              /\ Get(data["AuditLog"][j], "action") = Str(<<ActionTag(last.op)>>)
              /\ who(Get(data["AuditLog"][j], "userId"), Get(data["AuditLog"][j], "username"))

\* the identity's id and username, or 'system' for both when there is no identity
WhoAsStated(userId, username) ==
    IF user = Null THEN userId = Str(<<"system">>) /\ username = Str(<<"system">>)
    ELSE userId = Get(user, "id") /\ username = Get(user, "username")

\* each of the two falls back to 'system' on its own
WhoPerField(userId, username) ==
    /\ userId = (IF Truthy(UserField(user, "id")) THEN Get(user, "id") ELSE Str(<<"system">>))
    /\ username = (IF Truthy(UserField(user, "username")) THEN Get(user, "username")
                   ELSE Str(<<"system">>))

JournalStatuses == {"Draft", "Approved", "Rejected"}

InitReview ==
    /\ form \in {<<>>, <<JLine("debit", Num(100)), JLine("credit", Num(100))>>}
    /\ DataStart(JournalTables, {"JournalEntries", "JournalLines", "AuditLog"})
    /\ user \in {Alice, Visitor}
    /\ AuthIdle
    /\ BudgetIdle

\* updateEntity('JournalEntries', id, { status }) or ({ status, lines }): a review decision,
\* or an edit that carries the status along
ReviewJournal ==
    /\ ops < MaxOps + 1
    /\ \E id \in {Str(<<"1">>), Num(1)}, status \in JournalStatuses, withLines \in BOOLEAN,
          fault \in Faults :
        LET updates == IF withLines THEN [status |-> Str(<<status>>), lines |-> form]
                       ELSE [status |-> Str(<<status>>)]
        IN  Landed("update", "JournalEntries", id, updates, fault,
                   updateEntity(data, remote, error, unsavedChanges, user, "JournalEntries",
                                id, updates, fault, clock))
    /\ UNCHANGED <<form, authVars, budgetVars, loadVars>>

NextReview == ReviewJournal

SpecReview == InitReview /\ [][NextReview]_vars

\* the status of the seeded entry in a list of journal entries
StatusOf(rows) == Get(getEntityById([JournalEntries |-> rows], "JournalEntries", Str(<<"1">>)),
                      "status")

\* the action of the newest audit entry
NewestAction(rows) == IF rows = <<>> THEN Undef ELSE Get(rows[Len(rows)], "action")

\* a step that changes the status leaves Draft, and its audit entry says which way
OneWay(rows0, rows1, audit1) ==
    StatusOf(rows0) # StatusOf(rows1) =>
        /\ StatusOf(rows0) = Str(<<"Draft">>)
        /\ \/ StatusOf(rows1) = Str(<<"Approved">>) /\ NewestAction(audit1) = Str(<<"APPROVE">>)
           \/ StatusOf(rows1) = Str(<<"Rejected">>) /\ NewestAction(audit1) = Str(<<"REJECT">>)

\* C25: a journal entry's status only moves Draft -> Approved or Draft -> Rejected, never
\* on from Approved or Rejected, and every update that changes the status to Approved or
\* Rejected, with or without replaced lines, records an audit entry with action APPROVE or
\* REJECT respectively
C25_StatusOneWay ==
    [][/\ OneWay(remote["JournalEntries"], remote'["JournalEntries"], remote'["AuditLog"])
       /\ OneWay(data["JournalEntries"], data'["JournalEntries"], data'["AuditLog"])]_vars

\* ---- consistency of the Session Store ----

\* the durable keys are both present, holding the identity, or both absent
DurableKeysMatch ==
    /\ Has(storage, "currentUser") <=> Has(storage, "isAuthenticated")
    /\ Has(storage, "currentUser") =>
          user # Null /\ storage["currentUser"] = Obj(DropUndefined(user))

\* C26: under every interleaving of the interval reconciliation, auth-state notifications,
\* login and logout, isAuthenticated is true exactly when the identity is non-null, and
\* the durable keys currentUser and isAuthenticated are either both present, holding the
\* current identity, or both absent
C26_NoPartialWrite ==
    effects # <<>> =>
        /\ isAuthenticated <=> user # Null
        /\ DurableKeysMatch

\* ---- callbacks that resume after a logout ----

\* the provider is mounted over an empty storage: the first effect instance is subscribed
InitResume ==
    /\ form = <<>>
    /\ DataStart(SeedTables, {"Users", "AuditLog"})
    /\ BudgetIdle
    /\ user = Null /\ isAuthenticated = FALSE /\ session = Null /\ authError = "null"
    /\ storage = EmptyObj
    /\ \E live \in {NoAccount, AliceAccount},
          profiles \in {<<AliceProfile>>, <<AliceProfile, AdminProfile>>} :
        authRemote = [accounts |-> {AliceAccount}, profiles |-> profiles,
                      live |-> live, registered |-> {}, approved |-> {}]
    /\ effects = <<Instance(Null, 0)>>
    /\ authLast = [NoAuthCall EXCEPT !.op = "mount"]
    /\ userRef = 0
    /\ authSteps = 0

NextResume ==
    \/ Rerender \/ InitAuthAnswer \/ RefreshSession \/ AuthStateChange \/ AuthStateProfile
    \/ Logout

SpecResume == InitResume /\ [][NextResume]_vars

\* logout() has completed, or the signed-out notification has been handled
LoggedOut ==
    \/ authLast.op = "logout" /\ authLast.ret = TRUE
    \/ authLast.op = "authState" /\ authLast.arg = Str(<<"SIGNED_OUT">>)

Unauthenticated(u, flag, st) ==
    u = Null /\ ~flag /\ ~Has(st, "currentUser") /\ ~Has(st, "isAuthenticated")

\* C27: once logout() has completed or the signed-out notification has been handled, an
\* auth-state callback that was awaiting its profile lookup at that moment does not set
\* the identity, the authenticated flag or the durable keys when it resumes
C27_LogoutSticks ==
    [][(LoggedOut /\ authLast'.op = "authProfile") =>
           Unauthenticated(user', isAuthenticated', storage')]_vars

\* ---- startup with a session that stays valid ----

\* an instance of the auth initialization effect and where its initAuth stands: awaiting
\* getSession(), awaiting the profile row, or done
StartupInstance(seen, ref, at) == [user |-> seen, ref |-> ref, mounted |-> TRUE, at |-> at]

\* an object no render has seen: setUser is given a new object on every call
FreshRef == CHOOSE r \in 1..3 : r # userRef /\ (effects # <<>> => r # effects[Len(effects)].ref)

InitStartup ==
    /\ form = <<>>
    /\ DataStart(SeedTables, {"Users", "AuditLog"})
    /\ BudgetIdle
    /\ user = Null /\ isAuthenticated = FALSE /\ session = Null /\ authError = "null"
    /\ storage \in InitialStorages
    /\ \E profiles \in {<<AliceProfile>>, <<AliceProfile, AdminProfile>>} :
        authRemote = [accounts |-> {AliceAccount}, profiles |-> profiles,
                      live |-> AliceAccount, registered |-> {}, approved |-> {}]
    /\ effects = <<>>
    /\ authLast = NoAuthCall
    /\ userRef = 0
    /\ authSteps = 0

StartupRest == UNCHANGED <<authError, authRemote, authSteps, dataVars, budgetVars, loadVars>>

\* the provider mounts: checkLocalStorage, then the first instance of the effect
StartupMount ==
    /\ effects = <<>>
    /\ user' = checkLocalStorage(storage).user
    /\ isAuthenticated' = checkLocalStorage(storage).found
    /\ storage' = checkLocalStorage(storage).storage
    /\ userRef' = IF checkLocalStorage(storage).found THEN 1 ELSE 0
    /\ effects' = <<StartupInstance(Null, 0, "getSession")>>
    /\ authLast' = [NoAuthCall EXCEPT !.op = "mount"]
    /\ UNCHANGED session
    /\ StartupRest

\* the instances whose initAuth still awaits an answer
Pending(instances) == SeqFilter(instances, LAMBDA e : e.at # "done")

\* the render after setUser replaced the identity: the effect's cleanup sets mounted to
\* false and unsubscribes, and the effect runs again, calling initAuth()
StartupRender ==
    /\ effects # <<>>
    /\ effects[Len(effects)].ref # userRef
    /\ effects' = Append(Pending([i \in 1..Len(effects) |-> [effects[i] EXCEPT !.mounted = FALSE]]),
                         StartupInstance(user, userRef, "getSession"))
    /\ authLast' = [NoAuthCall EXCEPT !.op = "render"]
    /\ UNCHANGED <<user, userRef, isAuthenticated, session, storage>>
    /\ StartupRest

\* getSession() of an initAuth answers with the valid session
StartupSession ==
    \E i \in 1..Len(effects) :
        /\ effects[i].at = "getSession"
        /\ effects' = [effects EXCEPT ![i].at = IF effects[i].mounted THEN "profile" ELSE "done"]
        /\ session' = IF effects[i].mounted
                      THEN Obj([user |-> Obj(SessionUser(authRemote.live))])
                      ELSE session
        /\ authLast' = [NoAuthCall EXCEPT !.op = "initAuth", !.remoteCalled = TRUE,
                                          !.ret = effects[i].mounted]
        /\ KeepIdentity
        /\ StartupRest

\* the profile lookup of an initAuth answers: setUser(new object), saveUserToStorage,
\* setIsAuthenticated(true)
StartupProfile ==
    \E i \in 1..Len(effects), outcome \in {"row", "none"} :
        /\ effects[i].at = "profile"
        /\ effects' = [effects EXCEPT ![i].at = "done"]
        /\ user' = IF outcome = "row"
                   THEN CombinedUser(SessionUser(authRemote.live), authRemote.profiles)
                   ELSE SessionUser(authRemote.live)
        /\ userRef' = FreshRef
        /\ isAuthenticated' = TRUE
        /\ storage' = saveUserToStorage(storage, user')
        /\ authLast' = [NoAuthCall EXCEPT !.op = "profile", !.remoteCalled = TRUE,
                                          !.arg = Str(<<outcome>>)]
        /\ UNCHANGED session
        /\ StartupRest

\* the interval timer of the mounted instance: refreshSession() reads the valid session
StartupTick ==
    /\ \E i \in 1..Len(effects) : effects[i].mounted
    /\ authLast.op # "refreshSession"
    /\ session' = Obj([user |-> Obj(SessionUser(authRemote.live))])
    /\ authLast' = [NoAuthCall EXCEPT !.op = "refreshSession", !.remoteCalled = TRUE]
    /\ UNCHANGED effects
    /\ KeepIdentity
    /\ StartupRest

NextStartup == StartupMount \/ StartupRender \/ StartupSession \/ StartupProfile \/ StartupTick

SpecStartup ==
    /\ InitStartup
    /\ [][NextStartup]_vars
    /\ WF_vars(StartupMount) /\ WF_vars(StartupRender)
    /\ WF_vars(StartupSession) /\ WF_vars(StartupProfile)

\* no initAuth awaits an answer and no render is due
Quiescent ==
    /\ effects # <<>>
    /\ \A i \in 1..Len(effects) : effects[i].at = "done"
    /\ effects[Len(effects)].ref = userRef

\* C28: after startup with a remote session that stays valid, the initialization routine
\* runs only finitely many times: from some point on no session fetch or profile lookup
\* of it is outstanding and no re-run is due, the periodic timer apart
C28_Quiescence == <>[]Quiescent

\* ---- operations on other users' profile rows ----

PendingBob ==
    [id |-> BobAccount.id, email |-> BobEmail, username |-> Str(<<"bob">>),
     name |-> Str(<<"Bob">>), role |-> Str(<<"user">>), permissions |-> Str(TagRead),
     status |-> Str(<<"pending">>)]
ProfileRows == <<AliceProfile, AdminProfile, PendingBob>>

\* the provider is mounted and holds no identity, Alice's or the administrator's
InitAdmin ==
    /\ form = <<>>
    /\ DataStart(SeedTables, {"Users", "AuditLog"})
    /\ BudgetIdle
    /\ user \in {Null, CombinedUser(SessionUser(AliceAccount), ProfileRows),
                  MockAdmin(Str(<<"u", "0">>), Str(<<"Root">>), DefaultAdminPermissions)}
    /\ isAuthenticated = (user # Null)
    /\ session = Null /\ authError = "null"
    /\ storage = saveUserToStorage(EmptyObj, user)
    /\ authRemote = [accounts |-> {AliceAccount, BobAccount}, profiles |-> ProfileRows,
                     live |-> NoAccount, registered |-> {BobEmail}, approved |-> {}]
    /\ effects = <<[Instance(user, 0) EXCEPT !.awaiting = FALSE]>>
    /\ authLast = NoAuthCall
    /\ userRef = 0
    /\ authSteps = 0

\* .update(updates).eq('id', userId) on the Users table
UpdateProfiles(profiles, userId, updates) ==
    [i \in 1..Len(profiles) |->
        IF SameString(Get(profiles[i], "id"), userId) THEN Spread(profiles[i], updates)
        ELSE profiles[i]]

\* updateUserRole(userId, role, permissions): the columns it writes; a fourth argument
\* has no parameter to land in
RoleUpdates(role, permissions) ==
    IF Truthy(permissions)
    THEN [role |-> role,
          permissions |-> IF permissions.k = "arr" THEN Str(Join(permissions.a, ","))
                          ELSE permissions]
    ELSE [role |-> role]

\* AuthContext.updateUserRole
UpdateUserRole ==
    \E userId \in {BobAccount.id, AliceAccount.id}, role \in {AdminRole, Str(<<"user">>)},
       permissions \in {Undef, Arr(<<TagRead, TagWrite>>), Str(TagRead)},
       outcome \in {"ok", "error"} :
        LET updates == RoleUpdates(role, permissions)
        IN  /\ effects # <<>>
            /\ KeepIdentity
            /\ UNCHANGED <<session, effects>>
            /\ authError' = IF outcome = "error" THEN "role" ELSE "null"
            /\ authRemote' = IF outcome = "error" THEN authRemote
                             ELSE [authRemote EXCEPT
                                     !.profiles = UpdateProfiles(@, userId, updates)]
            /\ Step([NoAuthCall EXCEPT !.op = "updateUserRole", !.arg = userId,
                                       !.ret = (outcome = "ok"), !.remoteCalled = TRUE])

\* AuthContext.getAllUsers and getPendingUsers: isAdmin() first, then the select
GetUsers ==
    \E op \in {"getAllUsers", "getPendingUsers"}, outcome \in {"ok", "error"} :
        /\ effects # <<>>
        /\ KeepIdentity
        /\ UNCHANGED <<session, effects, authRemote>>
        /\ IF ~isAdmin(user)
           THEN /\ outcome = "error"
                /\ authError' = "unauthorized"
                /\ Step([NoAuthCall EXCEPT !.op = op])
           ELSE /\ authError' = IF outcome = "error" THEN "users" ELSE authError
                /\ Step([NoAuthCall EXCEPT !.op = op, !.ret = (outcome = "ok"),
                                           !.remoteCalled = TRUE])

NextAdmin == ApproveUser \/ UpdateUserRole \/ GetUsers

SpecAdmin == InitAdmin /\ [][NextAdmin]_vars

AdminOperations == {"getAllUsers", "getPendingUsers", "approveUser", "updateUserRole"}

\* C29: getAllUsers, getPendingUsers, approveUser and updateUserRole issue their remote
\* call only when the current identity is administrative; for any other identity, or
\* none, they fail without a remote call and no profile row changes
C29_AdminOnly ==
    ~isAdmin(user) =>
        /\ authRemote.profiles = ProfileRows
        /\ authLast.op \in AdminOperations => ~authLast.remoteCalled /\ ~authLast.ret

\* ---- the user management page ----

\* the administrator is signed in and the page lists the rows of the Users table
InitManage ==
    /\ form = <<>>
    /\ DataStart([Users |-> ProfileRows, AuditLog |-> <<>>], {"Users", "AuditLog"})
    /\ BudgetIdle
    /\ user = MockAdmin(AdminProfile.id, Str(<<"Root">>), DefaultAdminPermissions)
    /\ isAuthenticated = TRUE
    /\ session = Null /\ authError = "null"
    /\ storage = saveUserToStorage(EmptyObj, user)
    /\ authRemote = [accounts |-> {AliceAccount, BobAccount}, profiles |-> ProfileRows,
                     live |-> NoAccount, registered |-> {BobEmail}, approved |-> {}]
    /\ effects = <<[Instance(user, 0) EXCEPT !.awaiting = FALSE]>>
    /\ authLast = NoAuthCall
    /\ userRef = 0
    /\ authSteps = 0

\* what a page handler leaves in the Session Store
PageCall(call) ==
    /\ authSteps < MaxAuthSteps
    /\ authSteps' = authSteps + 1
    /\ authLast' = call
    /\ KeepIdentity
    /\ UNCHANGED <<session, effects, form, budgetVars, loadVars>>

\* handleDeleteUser then handleConfirmDelete: updateUserRole(id, role, permissions,
\* 'inactive'), and deleteEntity('Users', id) when that reports no success
HandleConfirmDelete ==
    \E i \in 1..Len(authRemote.profiles), outcome \in {"ok", "error"}, fault \in Faults :
        LET selectedUser == authRemote.profiles[i]
            id == Get(selectedUser, "id")
            call == [NoAuthCall EXCEPT !.op = "confirmDelete", !.arg = id,
                                       !.remoteCalled = TRUE]
            rows == UpdateProfiles(authRemote.profiles, id,
                                   RoleUpdates(Get(selectedUser, "role"),
                                               Get(selectedUser, "permissions")))
            out == deleteEntity(data, remote, error, unsavedChanges, user, "Users", id,
                                fault, clock)
        IN  /\ id # Get(user, "id")
            /\ ops < MaxOps
            /\ IF outcome = "ok"
               THEN /\ fault = NoFault
                    /\ authError' = "null"
                    /\ authRemote' = [authRemote EXCEPT !.profiles = rows]
                    /\ remote' = [remote EXCEPT !["Users"] = rows]
                    /\ PageCall([call EXCEPT !.ret = TRUE])
                    /\ UNCHANGED <<data, error, unsavedChanges, clock, ops, last>>
               ELSE /\ authError' = "role"
                    /\ authRemote' = [authRemote EXCEPT !.profiles = out.remote["Users"]]
                    /\ Landed("delete", "Users", id, EmptyObj, fault, out)
                    /\ PageCall(call)

\* handleRejectUser: updateUserRole(id, role, permissions, 'rejected')
HandleRejectUser ==
    \E i \in 1..Len(authRemote.profiles), outcome \in {"ok", "error"} :
        LET pending == authRemote.profiles[i]
            id == Get(pending, "id")
            call == [NoAuthCall EXCEPT !.op = "rejectUser", !.arg = id, !.remoteCalled = TRUE]
            rows == UpdateProfiles(authRemote.profiles, id,
                                   RoleUpdates(Get(pending, "role"), Get(pending, "permissions")))
        IN  /\ Get(pending, "status") = Str(<<"pending">>)
            /\ authError' = IF outcome = "ok" THEN "null" ELSE "role"
            /\ authRemote' = IF outcome = "ok" THEN [authRemote EXCEPT !.profiles = rows]
                             ELSE authRemote
            /\ remote' = IF outcome = "ok" THEN [remote EXCEPT !["Users"] = rows] ELSE remote
            /\ PageCall([call EXCEPT !.ret = (outcome = "ok")])
            /\ UNCHANGED <<data, error, unsavedChanges, clock, ops, last>>

NextManage == HandleConfirmDelete \/ HandleRejectUser \/ ApproveUser

SpecManage == InitManage /\ [][NextManage]_vars

\* the status of the Users row with the id, or undefined when no such row exists
RowStatus(rows, id) ==
    IF \E i \in 1..Len(rows) : Get(rows[i], "id") = id
    THEN Get(rows[CHOOSE i \in 1..Len(rows) : Get(rows[i], "id") = id], "status")
    ELSE Undef

\* C30: when an administrator confirms the deletion of a user, or rejects a pending user,
\* and the remote update reports success, the user's row still exists and its status is
\* 'inactive', respectively 'rejected'; and the row is never the administrator's own
C30_DeactivatedNotDeleted ==
    /\ (authLast.op = "confirmDelete" /\ authLast.ret) =>
          RowStatus(authRemote.profiles, authLast.arg) = Str(<<"inactive">>)
    /\ (authLast.op = "rejectUser" /\ authLast.ret) =>
          RowStatus(authRemote.profiles, authLast.arg) = Str(<<"rejected">>)
    /\ authLast.op \in {"confirmDelete", "rejectUser"} => authLast.arg # Get(user, "id")
====
